---- MODULE Spec2Model ----
(***************************************************************************)
(* go-pagetoken: encrypted keyset page tokens.                             *)
(*                                                                         *)
(* Go strings and []byte are modelled as sequences of bytes (0..255).      *)
(* A uint32 is a pair <<hi, lo>> of 16-bit limbs and a uint64 a 4-tuple of *)
(* 16-bit limbs (most significant first), so that every width of the code  *)
(* is kept without leaving the integer range of the model checker.         *)
(* A Go result (value, error) is a record [st, err, val]: st is "ok",      *)
(* "err" (err holds the message) or "panic" (a run-time panic).            *)
(***************************************************************************)
EXTENDS Integers, Sequences, FiniteSets, TLC

(* ------------------------------ bounds --------------------------------- *)

\* number of pages a session is followed for
MaxPages == 2

(* ------------------------- bytes and sequences ------------------------- *)

Byte == 0..255

RECURSIVE Pow2(_)
Pow2(k) == IF k = 0 THEN 1 ELSE 2 * Pow2(k - 1)

\* bit k of the byte b
BitOf(b, k) == (b \div Pow2(k)) % 2

\* the byte b with bit k inverted
FlipBit(b, k) == IF BitOf(b, k) = 1 THEN b - Pow2(k) ELSE b + Pow2(k)

Drop(s, n) == SubSeq(s, n + 1, Len(s))
Take(s, n) == SubSeq(s, 1, n)

Ok(v)      == [st |-> "ok", err |-> "", val |-> v]
Err(msg)   == [st |-> "err", err |-> msg, val |-> <<>>]
Panic(msg) == [st |-> "panic", err |-> msg, val |-> <<>>]

(* --------------------- encoding/base64, URLEncoding -------------------- *)

PadChar == 61  \* '='

\* the URL-safe alphabet: A-Z a-z 0-9 - _
B64Char(v) ==
    IF v < 26 THEN 65 + v
    ELSE IF v < 52 THEN 97 + (v - 26)
    ELSE IF v < 62 THEN 48 + (v - 52)
    ELSE IF v = 62 THEN 45 ELSE 95

\* decodeMap: the 6-bit value of a character, 255 when it is not in the alphabet
B64Val(c) ==
    IF c >= 65 /\ c <= 90 THEN c - 65
    ELSE IF c >= 97 /\ c <= 122 THEN c - 97 + 26
    ELSE IF c >= 48 /\ c <= 57 THEN c - 48 + 52
    ELSE IF c = 45 THEN 62
    ELSE IF c = 95 THEN 63 ELSE 255

RECURSIVE EncodeToString(_)
EncodeToString(bs) ==
    IF Len(bs) = 0 THEN <<>>
    ELSE IF Len(bs) = 1 THEN
        << B64Char(bs[1] \div 4), B64Char((bs[1] % 4) * 16), PadChar, PadChar >>
    ELSE IF Len(bs) = 2 THEN
        << B64Char(bs[1] \div 4),
           B64Char((bs[1] % 4) * 16 + bs[2] \div 16),
           B64Char((bs[2] % 16) * 4), PadChar >>
    ELSE
        << B64Char(bs[1] \div 4),
           B64Char((bs[1] % 4) * 16 + bs[2] \div 16),
           B64Char((bs[2] % 16) * 4 + bs[3] \div 64),
           B64Char(bs[3] % 64) >> \o EncodeToString(Drop(bs, 3))

\* the decoder skips '\r' and '\n' wherever they stand
NotNewline(c) == c # 10 /\ c # 13

StripNewlines(s) == SelectSeq(s, NotNewline)

B64Error == "illegal base64 data"

\* The bytes of one quantum of dlen characters (dlen in 2..4). The encoding
\* is not Strict(): the bits of the last character that belong to no byte
\* are dropped without being looked at.
QuantumBytes(v, dlen) ==
    LET b1 == v[1] * 4 + v[2] \div 16
        b2 == (v[2] % 16) * 16 + v[3] \div 4
        b3 == (v[3] % 4) * 64 + v[4]
    IN  IF dlen = 4 THEN <<b1, b2, b3>>
        ELSE IF dlen = 3 THEN <<b1, b2>> ELSE <<b1>>

\* decodeQuantum applied until the input is used up; s holds no newline
RECURSIVE DecodeQuanta(_)
DecodeQuanta(s) ==
    IF s = <<>> THEN Ok(<<>>)
    ELSE IF Len(s) < 4 /\ \A i \in 1..Len(s) : B64Val(s[i]) # 255
        THEN Err(B64Error)     \* input ends inside a quantum
    ELSE
        LET val(i) == IF i <= Len(s) THEN B64Val(s[i]) ELSE 255
            \* j: 0-based index of the first character outside the alphabet
            j == IF val(1) = 255 THEN 0
                 ELSE IF val(2) = 255 THEN 1
                 ELSE IF val(3) = 255 THEN 2
                 ELSE IF val(4) = 255 THEN 3 ELSE 4
        IN  IF j = 4 THEN
                LET rest == DecodeQuanta(Drop(s, 4))
                IN  IF rest.st = "ok"
                    THEN Ok(QuantumBytes(<<val(1), val(2), val(3), val(4)>>, 4) \o rest.val)
                    ELSE rest
            ELSE IF s[j + 1] # PadChar THEN Err(B64Error)
            ELSE IF j < 2 THEN Err(B64Error)            \* incorrect padding
            ELSE IF j = 2 THEN
                IF Len(s) < 4 THEN Err(B64Error)        \* not enough padding
                ELSE IF s[4] # PadChar THEN Err(B64Error)
                ELSE IF Len(s) > 4 THEN Err(B64Error)   \* trailing garbage
                ELSE Ok(QuantumBytes(<<val(1), val(2), 0, 0>>, 2))
            ELSE \* j = 3
                IF Len(s) > 4 THEN Err(B64Error)        \* trailing garbage
                ELSE Ok(QuantumBytes(<<val(1), val(2), val(3), 0>>, 3))

DecodeString(s) == DecodeQuanta(StripNewlines(s))

(* ------------------------ math/rand/v2, ChaCha8 ------------------------ *)

\* randKey and Encrypt both declare `r := rand.ChaCha8{}` and read from it:
\* a generator in its zero state, created anew at every call. Its output is a
\* function of that state alone, so every call reads the same stream.
\* ZeroStream(i) stands for the i-th byte of that stream.
ZeroStream(i) == (i * 37 + 11) % 256

ChaCha8Read(n) == [i \in 1..n |-> ZeroStream(i)]

randKey(size) == ChaCha8Read(size)

Rand32ByteKey == randKey(32)

(* ----------------------- crypto/cipher, AES-GCM ------------------------ *)

\* cipher.NewGCM: standard nonce and tag sizes
NonceSize == 12
TagSize == 16

\* sum of s[lo..hi]
RECURSIVE SumRange(_, _, _)
SumRange(s, lo, hi) ==
    IF lo > hi THEN 0
    ELSE IF lo = hi THEN s[lo]
    ELSE SumRange(s, lo, (lo + hi) \div 2) + SumRange(s, (lo + hi) \div 2 + 1, hi)

SumBytes(s) == SumRange(s, 1, Len(s))

\* sum of i * s[i] over lo..hi, modulo the prime 251
RECURSIVE WeightedRange(_, _, _)
WeightedRange(s, lo, hi) ==
    IF lo > hi THEN 0
    ELSE IF lo = hi THEN (lo * s[lo]) % 251
    ELSE (WeightedRange(s, lo, (lo + hi) \div 2)
          + WeightedRange(s, (lo + hi) \div 2 + 1, hi)) % 251

\* Stand-in for the counter-mode key stream of (key, nonce): byte i of it is
\* KeyStream0(key, nonce) + 31 * i
KeyStream0(key, nonce) == (SumBytes(key) + SumBytes(nonce)) % 256

\* Stand-in for the authentication tag over nonce and ciphertext: inverting
\* one bit of either changes every byte of the tag.
GcmTag(key, nonce, ct) ==
    LET buf == nonce \o ct
        h1  == (SumBytes(key) + WeightedRange(buf, 1, Len(buf))) % 251
        h2  == SumBytes(buf) % 251
    IN  [t \in 1..TagSize |-> (h1 + t * h2) % 251]

\* a Seal whose result does not start with dst
SealWithoutPrefix(key, dst, nonce, pt) ==
    LET ks == KeyStream0(key, nonce)
        ct == [i \in 1..Len(pt) |-> (pt[i] + ks + 31 * i) % 256]
    IN  ct \o GcmTag(key, nonce, ct)

\* aead.Seal(dst, nonce, plaintext, nil): dst || ciphertext || tag
Seal(key, dst, nonce, pt) ==
    LET ks == KeyStream0(key, nonce)
        ct == [i \in 1..Len(pt) |-> (pt[i] + ks + 31 * i) % 256]
    IN  dst \o ct \o GcmTag(key, nonce, ct)

OpenError == "cipher: message authentication failed"

\* aead.Open(nil, nonce, ciphertext, nil)
Open(key, nonce, body) ==
    IF Len(body) < TagSize THEN Err(OpenError)
    ELSE
        LET ct  == Take(body, Len(body) - TagSize)
            tag == Drop(body, Len(body) - TagSize)
            ks  == KeyStream0(key, nonce)
        IN  IF tag # GcmTag(key, nonce, ct) THEN Err(OpenError)
            ELSE Ok([i \in 1..Len(ct) |-> (ct[i] + 256 * 32 - ks - 31 * i) % 256])

(* -------------------- encryption.AEADEncryptor ------------------------- *)

KeySizes == {16, 24, 32}

\* NewAEADEncryptor: the codec, or an error for a key of another length
NewAEADEncryptor(key) ==
    IF Len(key) \notin KeySizes
    THEN Err("invalid key size: must be 16, 24, or 32 bytes")
    ELSE Ok([key |-> key])

Encrypt(e, d) ==
    LET nonce == ChaCha8Read(NonceSize)
        ciphertext == Seal(e.key, nonce, nonce, d)
    IN  Ok(EncodeToString(ciphertext))

Decrypt(e, token) ==
    LET dec == DecodeString(token)
    IN  IF dec.st # "ok" THEN Err("failed to decode token: " \o dec.err)
        ELSE IF Len(dec.val) < NonceSize THEN Err("ciphertext too short")
        ELSE
            LET nonce == Take(dec.val, NonceSize)
                opened == Open(e.key, nonce, Drop(dec.val, NonceSize))
            IN  IF opened.st # "ok" THEN Err("failed to decrypt: " \o opened.err)
                ELSE Ok(opened.val)

(* ---------------------- unsigned integers in limbs --------------------- *)

Limb == 256 * 256

RECURSIVE Xor16(_, _, _)
Xor16(a, b, n) ==
    IF n = 0 THEN 0
    ELSE ((a + b) % 2) + 2 * Xor16(a \div 2, b \div 2, n - 1)

\* a ^ b on uint32
Xor32(a, b) == << Xor16(a[1], b[1], 16), Xor16(a[2], b[2], 16) >>

\* a >> 1 on uint32
Shr1(a) == << a[1] \div 2, (a[2] \div 2) + (a[1] % 2) * 32768 >>

U32(hi, lo) == <<hi, lo>>

\* the conversion uint64(c) of a uint32
ToUint64(c) == << 0, 0, c[1], c[2] >>

\* x / 10 on four 16-bit limbs; the fifth element is the remainder
DivMod10(x) ==
    LET r1 == x[1] % 10
        m2 == r1 * Limb + x[2]
        m3 == (m2 % 10) * Limb + x[3]
        m4 == (m3 % 10) * Limb + x[4]
    IN  << x[1] \div 10, m2 \div 10, m3 \div 10, m4 \div 10, m4 % 10 >>

\* strconv.FormatUint(x, 10)
RECURSIVE FormatUint(_)
FormatUint(x) ==
    LET qr == DivMod10(x)
    IN  IF Take(qr, 4) = <<0, 0, 0, 0>> THEN << 48 + qr[5] >>
        ELSE FormatUint(Take(qr, 4)) \o << 48 + qr[5] >>

\* n * 10 + d on four 16-bit limbs; the fifth element is the carry out
MulAdd10(n, d) ==
    LET x4 == n[4] * 10 + d
        x3 == n[3] * 10 + x4 \div Limb
        x2 == n[2] * 10 + x3 \div Limb
        x1 == n[1] * 10 + x2 \div Limb
    IN  << x1 % Limb, x2 % Limb, x3 % Limb, x4 % Limb, x1 \div Limb >>

RECURSIVE ParseDigits(_, _)
ParseDigits(s, n) ==
    IF s = <<>> THEN Ok(n)
    ELSE IF Head(s) < 48 \/ Head(s) > 57 THEN Err("strconv.ParseUint: invalid syntax")
    ELSE
        LET m == MulAdd10(n, Head(s) - 48)
        IN  IF m[5] # 0 THEN Err("strconv.ParseUint: value out of range")
            ELSE ParseDigits(Tail(s), Take(m, 4))

\* strconv.ParseUint(s, 10, 64)
ParseUint(s) ==
    IF s = <<>> THEN Err("strconv.ParseUint: invalid syntax")
    ELSE ParseDigits(s, <<0, 0, 0, 0>>)

\* the conversion uint32(x) of a uint64: the low 32 bits
ToUint32(x) == << x[3], x[4] >>

(* ----------------------------- hash/crc32 ------------------------------ *)

\* the reversed IEEE polynomial 0xEDB88320
IEEE == U32(60856, 33568)

AllOnes == U32(65535, 65535)

\* n steps of the bitwise form of the table entry
RECURSIVE CrcBits(_, _)
CrcBits(crc, n) ==
    IF n = 0 THEN crc
    ELSE IF crc[2] % 2 = 1 THEN CrcBits(Xor32(Shr1(crc), IEEE), n - 1)
    ELSE CrcBits(Shr1(crc), n - 1)

\* the register after the bytes data[i..]; the register is evaluated before
\* the next byte is taken
RECURSIVE CrcUpdate(_, _, _)
CrcUpdate(crc, data, i) ==
    IF i > Len(data) \/ crc[2] < 0 THEN crc
    ELSE CrcUpdate(CrcBits(Xor32(crc, <<0, data[i]>>), 8), data, i + 1)

ChecksumIEEE(data) == Xor32(CrcUpdate(AllOnes, data, 1), AllOnes)

(* ------------------------------ unicode/utf8 --------------------------- *)

IsCont(s, i) == Len(s) >= i /\ s[i] >= 128 /\ s[i] <= 191

\* Number of bytes of the UTF-8 sequence s starts with (s[1] >= 0x80);
\* 0 when s starts with a byte that begins no valid sequence.
RuneLen(s) ==
    LET c == s[1]
    IN  IF c >= 194 /\ c <= 223 /\ IsCont(s, 2) THEN 2
        ELSE IF c = 224 /\ IsCont(s, 2) /\ s[2] >= 160 /\ IsCont(s, 3) THEN 3
        ELSE IF c = 237 /\ IsCont(s, 2) /\ s[2] <= 159 /\ IsCont(s, 3) THEN 3
        ELSE IF c >= 225 /\ c <= 239 /\ c # 237 /\ IsCont(s, 2) /\ IsCont(s, 3) THEN 3
        ELSE IF c = 240 /\ IsCont(s, 2) /\ s[2] >= 144 /\ IsCont(s, 3) /\ IsCont(s, 4) THEN 4
        ELSE IF c = 244 /\ IsCont(s, 2) /\ s[2] <= 143 /\ IsCont(s, 3) /\ IsCont(s, 4) THEN 4
        ELSE IF c >= 241 /\ c <= 243 /\ IsCont(s, 2) /\ IsCont(s, 3) /\ IsCont(s, 4) THEN 4
        ELSE 0

\* utf8.RuneError, U+FFFD, in UTF-8
RuneError == <<239, 191, 189>>

\* the UTF-8 form of a code point below 0x10000; a surrogate half is RuneError
EncodeRune(cp) ==
    IF cp < 128 THEN <<cp>>
    ELSE IF cp < 2048 THEN <<192 + cp \div 64, 128 + (cp % 64)>>
    ELSE IF cp >= 55296 /\ cp <= 57343 THEN RuneError
    ELSE <<224 + cp \div 4096, 128 + ((cp \div 64) % 64), 128 + (cp % 64)>>

RECURSIVE ValidString(_)
ValidString(s) ==
    IF s = <<>> THEN TRUE
    ELSE IF Head(s) < 128 THEN ValidString(Tail(s))
    ELSE RuneLen(s) # 0 /\ ValidString(Drop(s, RuneLen(s)))

(* ----------------------- encoding/json, []string ----------------------- *)

HexDigit(n) == IF n < 10 THEN 48 + n ELSE 97 + (n - 10)

HexVal(c) ==
    IF c >= 48 /\ c <= 57 THEN c - 48
    ELSE IF c >= 97 /\ c <= 102 THEN c - 97 + 10
    ELSE IF c >= 65 /\ c <= 70 THEN c - 65 + 10 ELSE 255

\* the body of a JSON string literal, as json.Encoder writes it (EscapeHTML on)
RECURSIVE AppendString(_)
AppendString(s) ==
    IF s = <<>> THEN <<>>
    ELSE
        LET c == Head(s)
        IN  IF c < 128 THEN
                (IF c = 34 \/ c = 92 THEN <<92, c>>
                 ELSE IF c = 8 THEN <<92, 98>>
                 ELSE IF c = 12 THEN <<92, 102>>
                 ELSE IF c = 10 THEN <<92, 110>>
                 ELSE IF c = 13 THEN <<92, 114>>
                 ELSE IF c = 9 THEN <<92, 116>>
                 ELSE IF c < 32 \/ c = 60 \/ c = 62 \/ c = 38
                    THEN <<92, 117, 48, 48, HexDigit(c \div 16), HexDigit(c % 16)>>
                 ELSE <<c>>) \o AppendString(Tail(s))
            ELSE IF RuneLen(s) = 0
                THEN <<92, 117, 102, 102, 102, 100>> \o AppendString(Tail(s))
            ELSE IF Len(s) >= 3 /\ s[1] = 226 /\ s[2] = 128 /\ s[3] \in {168, 169}
                THEN <<92, 117, 50, 48, 50, HexDigit(s[3] - 160)>> \o AppendString(Drop(s, 3))
            ELSE Take(s, RuneLen(s)) \o AppendString(Drop(s, RuneLen(s)))

RECURSIVE EncodeElems(_)
EncodeElems(d) ==
    IF d = <<>> THEN <<>>
    ELSE <<34>> \o AppendString(Head(d)) \o <<34>>
         \o (IF Len(d) > 1 THEN <<44>> ELSE <<>>) \o EncodeElems(Tail(d))

\* json.NewEncoder(bs).Encode(d) of a non-nil []string: the array and "\n"
JsonEncode(d) == <<91>> \o EncodeElems(d) \o <<93, 10>>

JsonError == "json: cannot unmarshal into []string"

RECURSIVE SkipWs(_)
SkipWs(s) ==
    IF s # <<>> /\ Head(s) \in {32, 9, 10, 13} THEN SkipWs(Tail(s)) ELSE s

Fail == [ok |-> FALSE, val |-> <<>>, rest |-> <<>>]

\* s follows the opening quote; val is the decoded string, rest what follows
\* the closing quote
RECURSIVE ScanString(_, _)
ScanString(s, acc) ==
    IF s = <<>> THEN Fail
    ELSE
        LET c == Head(s)
        IN  IF c = 34 THEN [ok |-> TRUE, val |-> acc, rest |-> Tail(s)]
            ELSE IF c < 32 THEN Fail
            ELSE IF c = 92 THEN
                IF Len(s) < 2 THEN Fail
                ELSE IF s[2] \in {34, 92, 47} THEN ScanString(Drop(s, 2), acc \o <<s[2]>>)
                ELSE IF s[2] = 98 THEN ScanString(Drop(s, 2), acc \o <<8>>)
                ELSE IF s[2] = 102 THEN ScanString(Drop(s, 2), acc \o <<12>>)
                ELSE IF s[2] = 110 THEN ScanString(Drop(s, 2), acc \o <<10>>)
                ELSE IF s[2] = 114 THEN ScanString(Drop(s, 2), acc \o <<13>>)
                ELSE IF s[2] = 116 THEN ScanString(Drop(s, 2), acc \o <<9>>)
                ELSE IF s[2] = 117 /\ Len(s) >= 6
                        /\ \A i \in 3..6 : HexVal(s[i]) # 255
                    THEN ScanString(Drop(s, 6),
                            acc \o EncodeRune(HexVal(s[3]) * 4096 + HexVal(s[4]) * 256
                                              + HexVal(s[5]) * 16 + HexVal(s[6])))
                ELSE Fail
            ELSE IF c < 128 THEN ScanString(Tail(s), acc \o <<c>>)
            ELSE IF RuneLen(s) = 0 THEN ScanString(Tail(s), acc \o RuneError)
            ELSE ScanString(Drop(s, RuneLen(s)), acc \o Take(s, RuneLen(s)))

\* one element of the array: a string literal, or null (the element keeps
\* the zero value ""); anything else does not fit a Go string
ScanElem(s) ==
    IF s # <<>> /\ Head(s) = 34 THEN ScanString(Tail(s), <<>>)
    ELSE IF Len(s) >= 4 /\ Take(s, 4) = <<110, 117, 108, 108>>
        THEN [ok |-> TRUE, val |-> <<>>, rest |-> Drop(s, 4)]
    ELSE Fail

\* s follows '[' or ','; val is the list of the remaining elements
RECURSIVE ScanElems(_)
ScanElems(s) ==
    LET e == ScanElem(SkipWs(s))
        r == SkipWs(e.rest)
    IN  IF ~e.ok \/ r = <<>> THEN Fail
        ELSE IF Head(r) = 93 THEN [ok |-> TRUE, val |-> <<e.val>>, rest |-> Tail(r)]
        ELSE IF Head(r) = 44 THEN
            LET more == ScanElems(Tail(r))
            IN  IF more.ok
                THEN [ok |-> TRUE, val |-> <<e.val>> \o more.val, rest |-> more.rest]
                ELSE Fail
        ELSE Fail

\* json.Unmarshal(d, &ps) with ps a nil []string: null leaves ps nil (length
\* 0); an array of strings fills it; every other document is an error
JsonUnmarshal(d) ==
    LET s == SkipWs(d)
    IN  IF Len(s) >= 4 /\ Take(s, 4) = <<110, 117, 108, 108>>
            THEN IF SkipWs(Drop(s, 4)) = <<>> THEN Ok(<<>>) ELSE Err(JsonError)
        ELSE IF s # <<>> /\ Head(s) = 91 THEN
            LET t == SkipWs(Tail(s))
            IN  IF t # <<>> /\ Head(t) = 93
                    THEN IF SkipWs(Tail(t)) = <<>> THEN Ok(<<>>) ELSE Err(JsonError)
                ELSE
                    LET es == ScanElems(t)
                    IN  IF es.ok /\ SkipWs(es.rest) = <<>> THEN Ok(es.val)
                        ELSE Err(JsonError)
        ELSE Err(JsonError)

(* -------------------------------- Order -------------------------------- *)

OrderAsc == TRUE
OrderDesc == FALSE

\* a String() that writes the two orders the other way round
OrderStringSwapped(o) == IF o = OrderAsc THEN <<48>> ELSE <<49>>

OrderString(o) == IF o = OrderAsc THEN <<49>> ELSE <<48>>

\* a ParseOrder that takes every string but "1" for OrderDesc
ParseOrderLenient(s) == IF s = <<49>> THEN Ok(OrderAsc) ELSE Ok(OrderDesc)

ParseOrder(s) ==
    IF s = <<49>> THEN Ok(OrderAsc)
    ELSE IF s = <<48>> THEN Ok(OrderDesc)
    ELSE Err("invalid order")

(* --------------------------- checksum.Builder -------------------------- *)

\* 0x58AEF322
DefaultChecksumMask == U32(22702, 62242)

\* a checksum that leaves the mask out
checksumPlain(data, mask) == ChecksumIEEE(data)

checksum(data, mask) == Xor32(ChecksumIEEE(data), mask)

\* a BuilderOpt is the closure Mask(mask) or Field(key, value)
Mask(mask) == [opt |-> "Mask", mask |-> mask]
Field(key, value) == [opt |-> "Field", key |-> key, value |-> value]

ApplyBuilderOpt(b, o) ==
    IF o.opt = "Mask" THEN [b EXCEPT !.mask = o.mask]
    ELSE [b EXCEPT !.fields = b.fields \o <<o.key, o.value>>]

RECURSIVE ApplyBuilderOpts(_, _)
ApplyBuilderOpts(b, opts) ==
    IF opts = <<>> THEN b
    ELSE ApplyBuilderOpts(ApplyBuilderOpt(b, Head(opts)), Tail(opts))

NewBuilder(opts) ==
    ApplyBuilderOpts([mask |-> DefaultChecksumMask, fields |-> <<>>], opts)

BuilderBuild(b) == Ok(checksum(JsonEncode(b.fields), b.mask))

(* ------------------------ KeysetToken and parser ----------------------- *)

KeysetValue(path, value, order) == [Path |-> path, Order |-> order, Value |-> value]

KeysetPayload(vs) == [vs |-> vs]

KeysetToken(crc, e, payload) == [checksum |-> crc, e |-> e, payload |-> payload]

tokenize(t, d) == Encrypt(t.e, JsonEncode(d))

\* an option that installs an empty payload whatever it is given
WithKeysetPayloadDropped(payload) ==
    [opt |-> "WithKeysetPayload", payload |-> KeysetPayload(<<>>)]

\* a KeysetTokenOpt is the closure WithKeysetPayload(payload)
WithKeysetPayload(payload) == [opt |-> "WithKeysetPayload", payload |-> payload]

RECURSIVE ApplyTokenOpts(_, _)
ApplyTokenOpts(c, opts) ==
    IF opts = <<>> THEN c
    ELSE ApplyTokenOpts([c EXCEPT !.payload = Head(opts).payload], Tail(opts))

\* a Next that starts the new token from a zero checksum
TokenNextRehashed(c, opts) ==
    ApplyTokenOpts(KeysetToken(<< 0, 0 >>, c.e, c.payload), opts)

\* KeysetToken.Next
TokenNext(c, opts) ==
    ApplyTokenOpts(KeysetToken(c.checksum, c.e, c.payload), opts)

RECURSIVE FlattenValues(_)
FlattenValues(vs) ==
    IF vs = <<>> THEN <<>>
    ELSE << Head(vs).Path, Head(vs).Value, OrderString(Head(vs).Order) >>
         \o FlattenValues(Tail(vs))

\* KeysetToken.String
TokenString(c) ==
    tokenize(c, FlattenValues(c.payload.vs)
                \o << FormatUint(ToUint64(c.checksum)) >>)

IndexPanic == "runtime error: index out of range"

\* the loop of Parse from the 0-based index i on
RECURSIVE ParseValues(_, _)
ParseValues(ps, i) ==
    IF ~(i < Len(ps) - 1) THEN Ok(<<>>)
    ELSE IF i + 2 >= Len(ps) THEN Panic(IndexPanic)
    ELSE
        LET o == ParseOrder(ps[i + 3])
        IN  IF o.st # "ok" THEN o
            ELSE
                LET rest == ParseValues(ps, i + 3)
                IN  IF rest.st # "ok" THEN rest
                    ELSE Ok(<< KeysetValue(ps[i + 1], ps[i + 2], o.val) >> \o rest.val)

\* Parse, from the loop on: crc is the parsed checksum, vs what the loop gave
ParseBuild(p, crc, vs) ==
    IF vs.st # "ok" THEN vs
    ELSE Ok(KeysetToken(ToUint32(crc), p.e, KeysetPayload(vs.val)))

\* Parse, from the ParseUint error check on
ParseChecksum(p, ps, crc) ==
    IF crc.st # "ok" THEN crc
    ELSE ParseBuild(p, crc.val, ParseValues(ps, 0))

\* Parse, from the json.Unmarshal error check on
ParseStrings(p, ps) ==
    IF ps.st # "ok" THEN ps
    ELSE IF Len(ps.val) = 0 THEN Panic(IndexPanic)
    ELSE ParseChecksum(p, ps.val, ParseUint(ps.val[Len(ps.val)]))

\* Parse, from the Decrypt error check on
ParsePlaintext(p, d) ==
    IF d.st # "ok" THEN d
    ELSE ParseStrings(p, JsonUnmarshal(d.val))

\* KeysetTokenParser.Parse
Parse(p, token) == ParsePlaintext(p, Decrypt(p.e, token))

NewKeysetTokenParser(e) == [e |-> e]

(* ----------------------------- RequestReader --------------------------- *)

\* NewRequestReader(WithEncryptor(e), WithChecksumOpts(opts...))
NewRequestReader(e, opts) == [e |-> e, checksumOpts |-> opts]

\* a builder made without the default mask
createChecksumBuilderUnmasked(r, opts) ==
    NewBuilder(<< Mask(<< 0, 0 >>) >> \o opts)

createChecksumBuilder(r, opts) == NewBuilder(opts)

MismatchError == "checksum mismatch"

None == [none |-> TRUE]

\* the checksum Read builds for the request
RequestChecksum(r, req) ==
    BuilderBuild(ApplyBuilderOpts(createChecksumBuilder(r, <<>>), req.fields))

\* Read of an empty page token, from the Build error check on
ReadBootstrap(r, crc) ==
    IF crc.st # "ok" THEN crc
    ELSE Ok(KeysetToken(crc.val, r.e, KeysetPayload(<<>>)))

\* Read of a parsed token c, from the Build error check on
ReadVerify(c, crc) ==
    IF crc.st # "ok" THEN crc
    ELSE IF crc.val # c.val.checksum
        THEN [st |-> "err", err |-> MismatchError,
              val |-> << c.val.checksum, crc.val >>]
    ELSE c

\* Read of a non-empty page token, from the Parse error check on
ReadParsed(r, req, c) ==
    (IF c.st # "ok" THEN c ELSE ReadVerify(c, RequestChecksum(r, req)))
        @@ [decrypts |-> 1, parse |-> c]

\* what Parse returned, handed on without comparing checksums
ReadTrusted(c) == c @@ [decrypts |-> 1, parse |-> c]

\* a Read that returns the parsed token without comparing checksums
ReadUnverified(r, req) ==
    IF req.pageToken = <<>> THEN
        ReadBootstrap(r, RequestChecksum(r, req))
            @@ [decrypts |-> 0, parse |-> None]
    ELSE
        ReadTrusted(Parse(NewKeysetTokenParser(r.e), req.pageToken))

\* RequestReader.Read. Two fields of the result record what happened on the
\* way: `decrypts` counts the calls of the codec's Decrypt, and `parse` is
\* what p.Parse returned (None when Parse was not called).
Read(r, req) ==
    IF req.pageToken = <<>> THEN
        ReadBootstrap(r, RequestChecksum(r, req))
            @@ [decrypts |-> 0, parse |-> None]
    ELSE
        ReadParsed(r, req, Parse(NewKeysetTokenParser(r.e), req.pageToken))

(* ------------------------ inputs of the model -------------------------- *)

\* registerRoutes: the codec of the service
Codec == NewAEADEncryptor(Rand32ByteKey).val

\* "a", "i", "s", "l", "t", "1", "id", "n", "7", "42", "80"
StrA == <<97>>
StrI == <<105>>
StrS == <<115>>
StrL == <<108>>
StrT == <<116>>
Str1 == <<49>>
StrId == <<105, 100>>
StrN == <<110>>
Str7 == <<55>>
Str42 == <<52, 50>>
Str80 == <<56, 48>>

\* a string that is not valid UTF-8 (the single byte 0xFF)
StrFF == <<255>>

\* the strings `q"<` and `e-acute`: escaped characters and a 2-byte rune
StrEsc == <<113, 34, 60>>
StrAcute == <<195, 169>>

\* the checksum options a reader is configured with (WithChecksumOpts)
ReaderOptsSet ==
    { <<>>, << Mask(U32(4660, 22136)), Field(StrT, Str1) >> }

\* the checksum fields of a request (GetChecksumFields)
FieldsSet ==
    { << Field(StrS, StrA) >>,
      << Field(StrS, StrI) >>,
      << Field(StrS, StrA), Field(StrL, Str1) >> }

\* the payloads a handler issues
PayloadSet ==
    { KeysetPayload(<<>>),
      KeysetPayload(<< KeysetValue(StrId, Str7, OrderAsc) >>),
      KeysetPayload(<< KeysetValue(StrS, Str80, OrderDesc),
                       KeysetValue(StrId, Str42, OrderAsc) >>),
      KeysetPayload(<< KeysetValue(StrN, StrFF, OrderAsc) >>),
      KeysetPayload(<< KeysetValue(StrEsc, StrAcute, OrderDesc) >>) }

\* The checksum a request with the fields fs is expected to carry when the
\* builder starts from the options opts
ExpectedChecksum(opts, fs) == BuilderBuild(ApplyBuilderOpts(NewBuilder(opts), fs)).val

\* "4294967296" (2^32), "18446744073709551616" (2^64), "x", "0"
Str2Pow32 == <<52, 50, 57, 52, 57, 54, 55, 50, 57, 54>>
Str2Pow64 == <<49, 56, 52, 52, 54, 55, 52, 52, 48, 55, 51, 55, 48, 57, 53, 53, 49, 54, 49, 54>>
StrX == <<120>>
Str0 == <<48>>

\* the JSON documents `null` and `{}`, and a text that is not JSON
DocNull == <<110, 117, 108, 108>>
DocObject == <<123, 125>>
DocNotJson == <<120>>

\* Plaintexts that a holder of the codec seals with Encrypt. c is the
\* checksum the reader expects: the last documents carry c + 2^32.
SealedDocs(c) ==
    { DocNull, DocObject, DocNotJson,
      JsonEncode(<<>>),
      JsonEncode(<< Str7 >>),
      JsonEncode(<< StrX >>),
      JsonEncode(<< Str2Pow32 >>),
      JsonEncode(<< Str2Pow64 >>),
      JsonEncode(<< StrA, Str7 >>),
      JsonEncode(<< StrA, StrI, Str1 >>),
      JsonEncode(<< StrA, StrI, Str7 >>),
      JsonEncode(<< StrA, StrI, Str1, StrS, Str0 >>),
      JsonEncode(<< StrA, StrI, Str1, StrS, StrL, Str0 >>),
      JsonEncode(<< FormatUint(<<0, 1, c[1], c[2]>>) >>),
      JsonEncode(<< StrId, Str7, Str1, FormatUint(<<0, 1, c[1], c[2]>>) >>) }

\* Strings that no Encrypt produced: "!", the base64 form of 3 bytes, and the
\* base64 form of a nonce followed by nothing
GarbageTokens ==
    { <<33>>,
      EncodeToString(<<65, 66, 67>>),
      EncodeToString(ChaCha8Read(NonceSize)) }

\* ListByKeyset returned no next payload
NilPayload == [nil |-> TRUE]

NextPayloads == PayloadSet \cup { NilPayload }


(* ------------------------------- state --------------------------------- *)

VARIABLES
    rr,       \* the RequestReader of the handler
    fields0,  \* the checksum fields of the session's first request
    wire,     \* the NextPageToken the client holds (<<>>: none)
    sent,     \* the token (payload, checksum) whose String() is `wire`
    req,      \* the request handled last
    kind,     \* how the client made that request
    res,      \* what RequestReader.Read returned for it
    src,      \* the token `sent` held when the request was made
    next,     \* the payload ListByKeyset returned for the next page
    tok,      \* the token the handler made with Next (None: no next page)
    first,    \* the checksum of the token the session started with
    page      \* number of pages served

\* a codec shared by several callers
VARIABLES
    shared,   \* the AEADEncryptor the callers share
    callers,  \* per caller: where it is in its call, and the call's locals
    calls     \* the Encrypt calls completed so far: nonce, plaintext, result

codecVars == << shared, callers, calls >>

\* no shared codec is in use
CodecIdle ==
    /\ shared = None
    /\ callers = <<>>
    /\ calls = <<>>

\* a caller of the keyset predicate expander
VARIABLES
    ex,       \* the call made: function, key list and what it returned
    hit       \* a row and whether the condition built selects it

expanderVars == << ex, hit >>

\* no expander call has been made
ExpanderIdle ==
    /\ ex = None
    /\ hit = None

\* a repository of books and its caller
VARIABLES
    repo,     \* the rows of the table, the page size and the default order
    listed    \* the ListByKeyset calls made so far, each with its results

repoVars == << repo, listed >>

\* no repository is in use
RepoIdle ==
    /\ repo = None
    /\ listed = <<>>

\* a payload builder and what its caller holds
VARIABLES
    heap,     \* the backing arrays of the slices allocated so far
    builder,  \* the builder: its slice vs and the adder calls made on it
    built,    \* the payloads returned by Build, each with the values it had
    got       \* the typed value added and what its accessor returned

payloadVars == << heap, builder, built, got >>

\* no payload builder is in use
PayloadIdle ==
    /\ heap = <<>>
    /\ builder = None
    /\ built = <<>>
    /\ got = None

\* a payload received and its reader
VARIABLES
    kf,       \* the payload: the values it holds
    lookup    \* the accessor call made on it and what it returned

readerVars == << kf, lookup >>

\* no payload is being read
ReaderIdle ==
    /\ kf = None
    /\ lookup = None

\* two checksum builders and their caller
VARIABLES
    builders, \* the two builders: mask and fields
    sums      \* what Build returned for each of them

checksumVars == << builders, sums >>

\* no checksum builder is in use
ChecksumIdle ==
    /\ builders = None
    /\ sums = None

\* the processes that generate keys
VARIABLES
    keys      \* the key generation calls made so far: process, size, result

keyVars == << keys >>

\* no key has been generated
KeysIdle == keys = None

\* tokens made with Next
VARIABLES
    mem,      \* the backing arrays of the field slices allocated so far
    toks,     \* the tokens allocated so far, by address
    run       \* the Next call in progress: source, new token, options left

tokenVars == << mem, toks, run >>

\* no token has been made
TokensIdle == mem = None /\ toks = None /\ run = None

\* the variables of the other parts of the library, untouched by a session
others == << codecVars, expanderVars, repoVars, payloadVars, readerVars,
             checksumVars, keyVars, tokenVars >>

vars == << rr, fields0, wire, sent, req, kind, res, src, next, tok,
           first, page, others >>

\* no paginated session is in progress
SessionIdle ==
    /\ rr = None
    /\ fields0 = <<>>
    /\ wire = <<>>
    /\ sent = None
    /\ req = None
    /\ kind = "none"
    /\ res = None
    /\ src = None
    /\ next = None
    /\ tok = None
    /\ first = None
    /\ page = 0

sessionVars == << rr, fields0, wire, sent, req, kind, res, src, next, tok,
                  first, page >>

\* the variables a call on the shared codec, on the expander, on the
\* repository, on a payload builder, on a payload, on the checksum
\* builders and of the key helpers leaves alone
codecRest ==
    << sessionVars, expanderVars, repoVars, payloadVars,
       readerVars, checksumVars, keyVars, tokenVars >>
expanderRest ==
    << sessionVars, codecVars, repoVars, payloadVars,
       readerVars, checksumVars, keyVars, tokenVars >>
repoRest ==
    << sessionVars, codecVars, expanderVars, payloadVars,
       readerVars, checksumVars, keyVars, tokenVars >>
payloadRest ==
    << sessionVars, codecVars, expanderVars, repoVars,
       readerVars, checksumVars, keyVars, tokenVars >>
readerRest ==
    << sessionVars, codecVars, expanderVars, repoVars,
       payloadVars, checksumVars, keyVars, tokenVars >>
checksumRest ==
    << sessionVars, codecVars, expanderVars, repoVars,
       payloadVars, readerVars, keyVars, tokenVars >>
keyRest ==
    << sessionVars, codecVars, expanderVars, repoVars,
       payloadVars, readerVars, checksumVars, tokenVars >>
tokenRest ==
    << sessionVars, codecVars, expanderVars, repoVars,
       payloadVars, readerVars, checksumVars, keyVars >>

Request(pageToken, fields) == [pageToken |-> pageToken, fields |-> fields]

Init ==
    /\ rr \in { NewRequestReader(Codec, o) : o \in ReaderOptsSet }
    /\ fields0 = <<>>
    /\ wire = <<>>
    /\ sent = None
    /\ req = None
    /\ kind = "none"
    /\ res = None
    /\ src = None
    /\ next = None
    /\ tok = None
    /\ first = None
    /\ page = 0
    /\ CodecIdle
    /\ ExpanderIdle
    /\ RepoIdle
    /\ PayloadIdle
    /\ ReaderIdle
    /\ ChecksumIdle
    /\ KeysIdle
    /\ TokensIdle

\* ListBooksDAO, from the t.Next call on: the response carries the string of
\* the token n
Issue(n) ==
    /\ tok' = n
    /\ wire' = TokenString(n).val
    /\ sent' = n
    /\ page' = page + 1

\* ListBooksDAO, from the error check of h.rr.Read on: t is what Read returned
Respond(r, t) ==
    /\ req' = r
    /\ res' = t
    /\ src' = sent
    /\ first' = IF r.pageToken = <<>> /\ t.st = "ok" THEN t.val.checksum ELSE first
    /\ IF t.st # "ok" THEN
            \* 400 invalid page_token (or the panic unwinds the handler)
            /\ next' = None
            /\ tok' = None
            /\ UNCHANGED << wire, sent, page >>
       ELSE
            \E nextPayload \in NextPayloads :
                /\ next' = nextPayload
                /\ IF nextPayload = NilPayload THEN
                        /\ tok' = None
                        /\ wire' = <<>>
                        /\ sent' = None
                        /\ page' = page + 1
                   ELSE
                        Issue(TokenNext(t.val, << WithKeysetPayload(nextPayload) >>))


\* Handler.ListBooksDAO for the request r. What ListByKeyset returns as the
\* payload of the next page is chosen among NextPayloads.
ListBooksDAO(r) == Respond(r, Read(rr, r))

\* what KeysetTokenParser.Parse returned for the page token of the request
parsed == IF res = None THEN None ELSE res.parse

\* The session is followed until a request is rejected (or the handler
\* panics): the last request, if any, was served.
Served == IF res = None THEN TRUE ELSE res.st = "ok"

\* the first request of a session: empty page token
Bootstrap ==
    /\ page = 0
    /\ wire = <<>>
    /\ \E fields \in FieldsSet :
            /\ fields0' = fields
            /\ ListBooksDAO(Request(<<>>, fields))
    /\ kind' = "bootstrap"
    /\ UNCHANGED << rr, others >>

\* the client echoes the token of the previous page with the same fields
Continue ==
    /\ Served
    /\ wire # <<>>
    /\ page < MaxPages
    /\ kind' = "continue"
    /\ ListBooksDAO(Request(wire, fields0))
    /\ UNCHANGED << rr, fields0, others >>

\* the client echoes the token but has changed its filters
Drift ==
    /\ Served
    /\ wire # <<>>
    /\ \E fields \in FieldsSet \ { fields0 } :
            ListBooksDAO(Request(wire, fields))
    /\ kind' = "drift"
    /\ UNCHANGED << rr, fields0, others >>

\* the client presents the token of the first page with bit k of its i-th
\* character inverted
Tamper ==
    /\ Served
    /\ wire # <<>>
    /\ kind = "bootstrap"
    /\ \E i \in 1..Len(wire), k \in 0..7 :
            ListBooksDAO(Request([wire EXCEPT ![i] = FlipBit(wire[i], k)],
                                 fields0))
    /\ kind' = "tamper"
    /\ UNCHANGED << rr, fields0, others >>

\* the client presents, instead of the token of the first page, a string
\* sealed by the codec over a plaintext of its choice
PresentSealed ==
    /\ Served
    /\ wire # <<>>
    /\ kind = "bootstrap"
    /\ \E doc \in SealedDocs(first) :
            ListBooksDAO(Request(Encrypt(rr.e, doc).val, fields0))
    /\ kind' = "sealed"
    /\ UNCHANGED << rr, fields0, others >>

\* the client presents a string that is no token at all
PresentGarbage ==
    /\ Served
    /\ wire # <<>>
    /\ \E s \in GarbageTokens : ListBooksDAO(Request(s, fields0))
    /\ kind' = "garbage"
    /\ UNCHANGED << rr, fields0, others >>

Next ==
    \/ Bootstrap
    \/ Continue
    \/ Drift
    \/ Tamper
    \/ PresentSealed
    \/ PresentGarbage

Spec == Init /\ [][Next]_vars

(* -------------- one AEADEncryptor shared by several callers ------------ *)

\* number of callers (goroutines) that share the codec
NumCallers == 2

\* number of Encrypt calls a run is followed for
MaxCalls == 3

\* the plaintexts of the encryption tests: []byte{1} and []byte{0, ..., 9}
Plaintexts == { << 1 >>, << 0, 1, 2, 3, 4, 5, 6, 7, 8, 9 >> }

\* a caller between two calls
IdleCaller == [pc |-> "idle", d |-> <<>>, nonce |-> <<>>, token |-> <<>>,
               out |-> None]

\* BeforeEach: one codec per key size, used by every caller
InitCodec ==
    /\ \E keySize \in KeySizes : shared = NewAEADEncryptor(randKey(keySize)).val
    /\ callers = [c \in 1..NumCallers |-> IdleCaller]
    /\ calls = <<>>
    /\ SessionIdle
    /\ ExpanderIdle
    /\ RepoIdle
    /\ PayloadIdle
    /\ ReaderIdle
    /\ ChecksumIdle
    /\ KeysIdle
    /\ TokensIdle

\* Encrypt, up to the nonce: nonce := make(...); r := rand.ChaCha8{}; r.Read
EncryptNonce(c) ==
    /\ callers[c].pc = "idle"
    /\ Len(calls) < MaxCalls
    /\ \E d \in Plaintexts :
          callers' = [callers EXCEPT ![c] =
                        [IdleCaller EXCEPT !.pc = "nonce", !.d = d,
                                           !.nonce = ChaCha8Read(NonceSize)]]
    /\ UNCHANGED << shared, calls, codecRest >>

\* Encrypt, from the Seal call to the return
EncryptSeal(c) ==
    /\ callers[c].pc = "nonce"
    /\ callers' = [callers EXCEPT ![c].pc = "encrypted",
                     ![c].token = EncodeToString(
                         Seal(shared.key, callers[c].nonce, callers[c].nonce,
                              callers[c].d))]
    /\ calls' = Append(calls, [nonce |-> callers[c].nonce, d |-> callers[c].d,
                               token |-> callers'[c].token])
    /\ UNCHANGED << shared, codecRest >>

\* a caller hands the result of a completed Encrypt call, its own or that of
\* another caller, to Decrypt
DecryptCall(c) ==
    /\ callers[c].pc \in { "idle", "encrypted" }
    /\ \E k \in 1..Len(calls) :
          callers' = [callers EXCEPT ![c] =
                        [IdleCaller EXCEPT !.pc = "decrypt", !.d = calls[k].d,
                                           !.token = calls[k].token]]
    /\ UNCHANGED << shared, calls, codecRest >>

\* Decrypt, whole
DecryptReturn(c) ==
    /\ callers[c].pc = "decrypt"
    /\ callers' = [callers EXCEPT ![c].pc = "decrypted",
                     ![c].out = Decrypt(shared, callers[c].token)]
    /\ UNCHANGED << shared, calls, codecRest >>

\* the caller drops the results of its call
Forget(c) ==
    /\ callers[c].pc \in { "encrypted", "decrypted" }
    /\ callers' = [callers EXCEPT ![c] = IdleCaller]
    /\ UNCHANGED << shared, calls, codecRest >>

NextCodec ==
    \/ \E c \in 1..NumCallers : EncryptNonce(c)
    \/ \E c \in 1..NumCallers : EncryptSeal(c)
    \/ \E c \in 1..NumCallers : DecryptCall(c)
    \/ \E c \in 1..NumCallers : DecryptReturn(c)
    \/ \E c \in 1..NumCallers : Forget(c)

SpecCodec == InitCodec /\ [][NextCodec]_vars

(* --------------------- strconv: bool and integers ---------------------- *)

\* the size of int and uint in bits (bitSize 0)
IntSize == 64

StrTrue == <<116, 114, 117, 101>>
StrFalse == <<102, 97, 108, 115, 101>>

\* strconv.FormatBool
FormatBool(b) == IF b THEN StrTrue ELSE StrFalse

\* strconv.ParseBool
ParseBool(s) ==
    IF s \in { <<49>>, <<116>>, <<84>>, <<84, 82, 85, 69>>, StrTrue,
               <<84, 114, 117, 101>> } THEN Ok(TRUE)
    ELSE IF s \in { <<48>>, <<102>>, <<70>>, <<70, 65, 76, 83, 69>>, StrFalse,
                    <<70, 97, 108, 115, 101>> } THEN Ok(FALSE)
    ELSE Err("strconv.ParseBool: invalid syntax")

Zero64 == << 0, 0, 0, 0 >>

\* a < b on four 16-bit limbs
Less64(a, b) ==
    \E i \in 1..4 : a[i] < b[i] /\ \A j \in 1..(i - 1) : a[j] = b[j]

\* 1<<bits - 1 on four 16-bit limbs (bits in 1..64)
MaxUint(bits) ==
    [i \in 1..4 |->
        IF 16 * (5 - i) <= bits THEN Limb - 1
        ELSE IF 16 * (4 - i) < bits THEN Pow2(bits - 16 * (4 - i)) - 1
        ELSE 0]

\* 1 << (bits-1) on four 16-bit limbs (bits in 1..64)
Cutoff(bits) ==
    [i \in 1..4 |->
        IF 16 * (4 - i) < bits /\ bits <= 16 * (5 - i)
        THEN Pow2(bits - 1 - 16 * (4 - i)) ELSE 0]

\* x - 1 on four 16-bit limbs (x not zero)
Dec64(x) ==
    IF x[4] > 0 THEN << x[1], x[2], x[3], x[4] - 1 >>
    ELSE IF x[3] > 0 THEN << x[1], x[2], x[3] - 1, Limb - 1 >>
    ELSE IF x[2] > 0 THEN << x[1], x[2] - 1, Limb - 1, Limb - 1 >>
    ELSE << x[1] - 1, Limb - 1, Limb - 1, Limb - 1 >>

\* the loop of strconv.ParseUint for base 10: a digit that takes the number
\* past maxVal ends it with a range error
RECURSIVE ParseDigitsBits(_, _, _)
ParseDigitsBits(s, n, maxVal) ==
    IF s = <<>> THEN Ok(n)
    ELSE IF Head(s) < 48 \/ Head(s) > 57
    THEN Err("strconv.ParseUint: invalid syntax")
    ELSE IF MulAdd10(n, Head(s) - 48)[5] # 0
            \/ Less64(maxVal, Take(MulAdd10(n, Head(s) - 48), 4))
    THEN [st |-> "err", err |-> "strconv.ParseUint: value out of range",
          val |-> maxVal]
    ELSE ParseDigitsBits(Tail(s), Take(MulAdd10(n, Head(s) - 48), 4), maxVal)

\* strconv.ParseUint(s, 10, bitSize)
ParseUintBits(s, bitSize) ==
    IF s = <<>> THEN Err("strconv.ParseUint: invalid syntax")
    ELSE ParseDigitsBits(s, Zero64,
                         MaxUint(IF bitSize = 0 THEN IntSize ELSE bitSize))

\* a signed integer: sign and magnitude, the magnitude on four 16-bit limbs
SInt(neg, mag) == [neg |-> neg, mag |-> mag]

\* strconv.FormatInt(v, 10)
FormatInt(v) ==
    IF v.neg THEN << 45 >> \o FormatUint(v.mag) ELSE FormatUint(v.mag)

\* strconv.ParseInt from the result un of ParseUint on
ParseIntSigned(neg, un, cutoff) ==
    IF un.st # "ok" /\ un.err # "strconv.ParseUint: value out of range"
    THEN Err("strconv.ParseInt: invalid syntax")
    ELSE IF ~neg /\ ~Less64(un.val, cutoff)
    THEN [st |-> "err", err |-> "strconv.ParseInt: value out of range",
          val |-> SInt(FALSE, Dec64(cutoff))]
    ELSE IF neg /\ Less64(cutoff, un.val)
    THEN [st |-> "err", err |-> "strconv.ParseInt: value out of range",
          val |-> SInt(TRUE, cutoff)]
    ELSE Ok(SInt(neg /\ un.val # Zero64, un.val))

\* a ParseInt that takes every bitSize for 64
ParseIntWide(s, bitSize) ==
    IF s = <<>> THEN Err("strconv.ParseInt: invalid syntax")
    ELSE IF Head(s) = 45
    THEN ParseIntSigned(TRUE, ParseUintBits(Tail(s), 64), Cutoff(64))
    ELSE ParseIntSigned(FALSE, ParseUintBits(s, 64), Cutoff(64))

\* strconv.ParseInt(s, 10, bitSize)
ParseInt(s, bitSize) ==
    IF s = <<>> THEN Err("strconv.ParseInt: invalid syntax")
    ELSE IF Head(s) = 43
    THEN ParseIntSigned(FALSE, ParseUintBits(Tail(s), bitSize),
                        Cutoff(IF bitSize = 0 THEN IntSize ELSE bitSize))
    ELSE IF Head(s) = 45
    THEN ParseIntSigned(TRUE, ParseUintBits(Tail(s), bitSize),
                        Cutoff(IF bitSize = 0 THEN IntSize ELSE bitSize))
    ELSE ParseIntSigned(FALSE, ParseUintBits(s, bitSize),
                        Cutoff(IF bitSize = 0 THEN IntSize ELSE bitSize))

(* ------------------------ time.Time, RFC3339Nano ----------------------- *)

\* a time in UTC: << year, month, day, hour, minute, second, nanosecond >>
ZeroTime == << 1, 1, 1, 0, 0, 0, 0 >>

\* n in decimal on w digits
RECURSIVE Pad(_, _)
Pad(n, w) ==
    IF w = 0 THEN <<>> ELSE Pad(n \div 10, w - 1) \o << 48 + (n % 10) >>

\* the digits ds without their trailing zeros
RECURSIVE TrimZeros(_)
TrimZeros(ds) ==
    IF ds # <<>> /\ ds[Len(ds)] = 48 THEN TrimZeros(Take(ds, Len(ds) - 1))
    ELSE ds

\* value.Format(time.RFC3339Nano): 2006-01-02T15:04:05.999999999Z07:00
FormatTime(t) ==
    Pad(t[1], 4) \o << 45 >> \o Pad(t[2], 2) \o << 45 >> \o Pad(t[3], 2)
    \o << 84 >> \o Pad(t[4], 2) \o << 58 >> \o Pad(t[5], 2) \o << 58 >>
    \o Pad(t[6], 2)
    \o (IF t[7] = 0 THEN <<>> ELSE << 46 >> \o TrimZeros(Pad(t[7], 9)))
    \o << 90 >>

IsDigit(c) == c >= 48 /\ c <= 57

\* the number written by the digits ds
RECURSIVE Atoi(_)
Atoi(ds) ==
    IF ds = <<>> THEN 0 ELSE Atoi(Take(ds, Len(ds) - 1)) * 10 + (ds[Len(ds)] - 48)

\* the digits ds followed by zeros, up to w digits
RECURSIVE PadRight(_, _)
PadRight(ds, w) == IF Len(ds) >= w THEN ds ELSE PadRight(Append(ds, 48), w)

DaysIn(year, month) ==
    IF month = 2
    THEN IF year % 4 = 0 /\ (year % 100 # 0 \/ year % 400 = 0) THEN 29 ELSE 28
    ELSE IF month \in { 4, 6, 9, 11 } THEN 30 ELSE 31

TimeError == "parsing time: cannot parse"

\* time.Parse, from the fields on: the ranges of the fields
ParseTimeFields(t) ==
    IF t[2] \in 1..12 /\ t[3] \in 1..DaysIn(t[1], t[2])
       /\ t[4] < 24 /\ t[5] < 60 /\ t[6] < 60
    THEN Ok(t) ELSE Err(TimeError)

\* time.Parse(time.RFC3339Nano, s) for a text that ends in Z: the date, the
\* time of day and a fraction of one to nine digits that may be absent
ParseTime(s) ==
    IF Len(s) < 20 \/ Len(s) = 21 \/ Len(s) > 30 THEN Err(TimeError)
    ELSE IF s[5] # 45 \/ s[8] # 45 \/ s[11] # 84 \/ s[14] # 58 \/ s[17] # 58
            \/ s[Len(s)] # 90 THEN Err(TimeError)
    ELSE IF \E i \in { 1, 2, 3, 4, 6, 7, 9, 10, 12, 13, 15, 16, 18, 19 } :
                ~IsDigit(s[i]) THEN Err(TimeError)
    ELSE IF Len(s) > 20 /\ (s[20] # 46 \/ \E i \in 21..(Len(s) - 1) : ~IsDigit(s[i]))
    THEN Err(TimeError)
    ELSE ParseTimeFields(<< Atoi(SubSeq(s, 1, 4)), Atoi(SubSeq(s, 6, 7)),
                            Atoi(SubSeq(s, 9, 10)), Atoi(SubSeq(s, 12, 13)),
                            Atoi(SubSeq(s, 15, 16)), Atoi(SubSeq(s, 18, 19)),
                            IF Len(s) = 20 THEN 0
                            ELSE Atoi(PadRight(SubSeq(s, 21, Len(s) - 1), 9)) >>)

(* ---------------- KeysetPayloadBuilder and KeysetPayload --------------- *)

\* largest number of adder calls on a builder
MaxAdds == 2

\* largest number of Build calls on a builder
MaxBuilds == 2

\* the typed adders, each with its accessor of the same name; "Order" stands
\* for AddKeysetValue and GetKeysetValue with Order.String and ParseOrder
SignedTypes == { "Int", "Int8", "Int16", "Int32", "Int64", "Rune" }
UnsignedTypes == { "Uint", "Uint8", "Uint16", "Uint32", "Uint64", "Byte" }

\* the bitSize the accessor of an integer type hands to strconv
BitSize(type) ==
    IF type \in { "Int", "Uint" } THEN 0
    ELSE IF type \in { "Int8", "Uint8", "Byte" } THEN 8
    ELSE IF type \in { "Int16", "Uint16" } THEN 16
    ELSE IF type \in { "Int32", "Uint32", "Rune" } THEN 32
    ELSE 64

\* the string an adder stores for a value
Encode(type, value) ==
    IF type = "String" THEN value
    ELSE IF type = "Bool" THEN FormatBool(value)
    ELSE IF type \in SignedTypes THEN FormatInt(value)
    ELSE IF type \in UnsignedTypes THEN FormatUint(value)
    ELSE IF type = "Time" THEN FormatTime(value)
    ELSE OrderString(value)

\* the width in bits of an integer type
Bits(type) == IF BitSize(type) = 0 THEN IntSize ELSE BitSize(type)

\* uintN(x): the low bits of x
TruncUint(x, bits) ==
    [i \in 1..4 |->
        IF 16 * (5 - i) <= bits THEN x[i]
        ELSE IF 16 * (4 - i) < bits THEN x[i] % Pow2(bits - 16 * (4 - i))
        ELSE 0]

\* -x on 64 bits, two's complement (x not zero)
Neg64(x) == [i \in 1..4 |-> Limb - 1 - Dec64(x)[i]]

\* the 64 bits of the int64 v
Bits64(v) == IF v.neg /\ v.mag # Zero64 THEN Neg64(v.mag) ELSE v.mag

\* the signed integer whose bits are the low bits t
SignedOf(t, bits) ==
    IF t # Zero64 /\ ~Less64(t, Cutoff(bits))
    THEN SInt(TRUE, TruncUint(Neg64(t), bits))
    ELSE SInt(FALSE, t)

\* intN(v)
TruncInt(v, bits) == SignedOf(TruncUint(Bits64(v), bits), bits)

\* the decode function of a signed accessor: v, err := strconv.ParseInt(...);
\* return intN(v), err
DecodeInt(r, bits) ==
    IF r.st # "ok" /\ r.err = "strconv.ParseInt: invalid syntax"
    THEN [st |-> "err", err |-> r.err, val |-> SInt(FALSE, Zero64)]
    ELSE [r EXCEPT !.val = TruncInt(r.val, bits)]

\* the decode function of an unsigned accessor: v, err :=
\* strconv.ParseUint(...); return uintN(v), err
DecodeUint(r, bits) ==
    IF r.st # "ok" /\ r.err = "strconv.ParseUint: invalid syntax"
    THEN [st |-> "err", err |-> r.err, val |-> Zero64]
    ELSE [r EXCEPT !.val = TruncUint(r.val, bits)]

\* identity
identity(v) == Ok(v)

\* the decode function of an accessor
Decode(type, s) ==
    IF type = "String" THEN identity(s)
    ELSE IF type = "Bool" THEN ParseBool(s)
    ELSE IF type \in SignedTypes
    THEN DecodeInt(ParseInt(s, BitSize(type)), Bits(type))
    ELSE IF type \in UnsignedTypes
    THEN DecodeUint(ParseUintBits(s, BitSize(type)), Bits(type))
    ELSE IF type = "Time" THEN ParseTime(s)
    ELSE ParseOrder(s)

\* var zero T
ZeroOf(type) ==
    IF type = "String" THEN <<>>
    ELSE IF type = "Bool" THEN FALSE
    ELSE IF type \in SignedTypes THEN SInt(FALSE, Zero64)
    ELSE IF type \in UnsignedTypes THEN Zero64
    ELSE IF type = "Time" THEN ZeroTime
    ELSE OrderDesc

\* the zero KeysetValue
ZeroValue == KeysetValue(<<>>, <<>>, OrderDesc)

\* a slice: its backing array in the heap (0: none), its length and capacity
Slice(arr, len, cap) == [arr |-> arr, len |-> len, cap |-> cap]

\* var vs []KeysetValue
NilSlice == Slice(0, 0, 0)

\* the elements of the slice s
Elems(h, s) == IF s.len = 0 THEN <<>> ELSE Take(h[s.arr], s.len)

\* the capacity append grows a full slice to
NewCap(cap) == IF cap = 0 THEN 1 ELSE 2 * cap

\* a new array of n elements that starts with vs
NewArray(vs, n) == [i \in 1..n |-> IF i <= Len(vs) THEN vs[i] ELSE ZeroValue]

\* append(s, v): in place when the array has room, in a new array otherwise
SliceAppend(h, s, v) ==
    IF s.len < s.cap
    THEN [heap |-> [h EXCEPT ![s.arr][s.len + 1] = v],
          slice |-> Slice(s.arr, s.len + 1, s.cap)]
    ELSE [heap |-> Append(h, NewArray(Append(Elems(h, s), v), NewCap(s.cap))),
          slice |-> Slice(Len(h) + 1, s.len + 1, NewCap(s.cap))]

\* vs := make([]KeysetValue, len(b.vs)); copy(vs, b.vs)
SliceCopy(h, s) ==
    [heap |-> Append(h, NewArray(Elems(h, s), s.len)),
     slice |-> Slice(Len(h) + 1, s.len, s.len)]

\* KeysetPayloadBuilder.append on the builder's slice
append(h, vs, key, value, order) ==
    SliceAppend(h, vs, KeysetValue(key, value, order))

\* a typed adder that stores every entry as descending
AddDescending(h, vs, type, key, value, order) ==
    append(h, vs, key, Encode(type, value), OrderDesc)

\* the typed adders and AddKeysetValue
Add(h, vs, type, key, value, order) ==
    append(h, vs, key, Encode(type, value), order)

\* a Build that makes the new slice and copies nothing into it
BuildWithoutCopy(h, vs) ==
    [heap |-> Append(h, NewArray(<<>>, vs.len)),
     slice |-> Slice(Len(h) + 1, vs.len, vs.len)]

\* KeysetPayloadBuilder.Build
Build(h, vs) == SliceCopy(h, vs)

ErrFieldNotFound == "field not found"

\* a lookup that keeps the last entry of that path
valueLast(vs, key) ==
    IF \A i \in 1..Len(vs) : vs[i].Path # key THEN Err(ErrFieldNotFound)
    ELSE Ok(vs[CHOOSE i \in 1..Len(vs) :
                   /\ vs[i].Path = key
                   /\ \A j \in (i + 1)..Len(vs) : vs[j].Path # key])

\* KeysetPayload.value: the first entry of that path
RECURSIVE value(_, _)
value(vs, key) ==
    IF vs = <<>> THEN Err(ErrFieldNotFound)
    ELSE IF Head(vs).Path = key THEN Ok(Head(vs))
    ELSE value(Tail(vs), key)

\* what an accessor returns: value, order and error ("": nil)
Got(v, order, err) == [val |-> v, order |-> order, err |-> err]

\* a GetKeysetValue that reports every failure as a missing field
GetDecodedAsMissing(type, f, v) ==
    IF v.st # "ok" THEN Got(ZeroOf(type), f.Order, ErrFieldNotFound)
    ELSE Got(v.val, f.Order, "")

\* GetKeysetValue, from the decodeFn call on
GetDecoded(type, f, v) ==
    IF v.st # "ok" THEN Got(ZeroOf(type), f.Order, v.err)
    ELSE Got(v.val, f.Order, "")

\* GetKeysetValue, from the value call on
GetFound(type, f) ==
    IF f.st # "ok" THEN Got(ZeroOf(type), OrderDesc, f.err)
    ELSE GetDecoded(type, f.val, Decode(type, f.val.Value))

\* GetKeysetValue with the decode function of the type, and the typed
\* accessors, on a payload whose values are vs
GetKeysetValue(vs, type, key) == GetFound(type, value(vs, key))

\* the calls of decodeFn that GetKeysetValue makes
DecodeCalls(vs, key) == IF value(vs, key).st # "ok" THEN 0 ELSE 1

\* KeysetPayload.Values: the slice vs itself
Values(vs) == vs

(* ------------------- a builder, its payloads, a caller ----------------- *)

Str8 == <<56>>

\* the plain entries a caller adds: path, value, order
PlainInputs ==
    { << StrA, Str7, OrderAsc >>, << StrA, Str8, OrderDesc >> }

\* the values of each type a caller adds: the ends of the range and values
\* in between
ValuesOf(type) ==
    IF type = "String" THEN { <<>>, StrEsc }
    ELSE IF type = "Bool" THEN { TRUE, FALSE }
    ELSE IF type \in SignedTypes
    THEN { SInt(TRUE, Cutoff(IF BitSize(type) = 0 THEN IntSize ELSE BitSize(type))),
           SInt(FALSE, Dec64(Cutoff(IF BitSize(type) = 0 THEN IntSize
                                    ELSE BitSize(type)))),
           SInt(TRUE, << 0, 0, 0, 1 >>) }
    ELSE IF type \in UnsignedTypes
    THEN { MaxUint(IF BitSize(type) = 0 THEN IntSize ELSE BitSize(type)),
           Zero64 }
    ELSE { OrderAsc, OrderDesc }

Types == { "String", "Bool", "Order" } \cup SignedTypes \cup UnsignedTypes

\* the path and order of the typed entry a caller adds
TypedInputs == { << StrA, OrderAsc >>, << StrId, OrderDesc >> }

\* the value a caller writes into the slice it got from Values()
Overwrite == KeysetValue(StrX, Str0, OrderDesc)

\* NewKeysetPayloadBuilder(); adds counts the adder calls made on it
InitPayload ==
    /\ heap = <<>>
    /\ builder = [vs |-> NilSlice, adds |-> 0]
    /\ built = <<>>
    /\ got = None
    /\ SessionIdle
    /\ CodecIdle
    /\ ExpanderIdle
    /\ RepoIdle
    /\ ReaderIdle
    /\ ChecksumIdle
    /\ KeysIdle
    /\ TokensIdle

\* the builder after an append that returned r
Appended(r) == [vs |-> r.slice, adds |-> builder.adds + 1]

\* b.AddString(key, value, order)
AddString ==
    /\ builder.adds < MaxAdds
    /\ \E in \in PlainInputs :
          /\ heap' = Add(heap, builder.vs, "String", in[1], in[2], in[3]).heap
          /\ builder' = Appended(Add(heap, builder.vs, "String",
                                     in[1], in[2], in[3]))
    /\ UNCHANGED << built, got, payloadRest >>

\* one typed adder call, on the value the caller will read back
AddTyped ==
    /\ builder.adds < MaxAdds
    /\ got = None
    /\ \E type \in Types, in \in TypedInputs :
          \E v \in ValuesOf(type), key \in { in[1] }, order \in { in[2] } :
              /\ heap' = Add(heap, builder.vs, type, key, v, order).heap
              /\ builder' = Appended(Add(heap, builder.vs, type, key, v, order))
              /\ got' = [type |-> type, key |-> key, v |-> v, order |-> order,
                         at |-> builder.vs.len + 1, from |-> 0,
                         intact |-> TRUE, out |-> None]
    /\ UNCHANGED << built, payloadRest >>

\* what Parse returns for the String() of a token that carries the payload
Reparsed(payload) ==
    Parse(NewKeysetTokenParser(Codec),
          TokenString(KeysetToken(U32(0, 0), Codec, payload)).val)

\* p := b.Build(); `at` keeps the values p had when it was built and `adds`
\* the number of adder calls made before. The caller sends the first payload
\* of the builder in a token: `parse` is what the receiver parses from it.
BuildPayload ==
    /\ Len(built) < MaxBuilds
    /\ heap' = Build(heap, builder.vs).heap
    /\ built' = Append(built,
                       [vs |-> Build(heap, builder.vs).slice,
                        at |-> Elems(heap, builder.vs),
                        adds |-> builder.adds,
                        parse |-> IF built = <<>>
                                  THEN Reparsed(KeysetPayload(
                                           Elems(Build(heap, builder.vs).heap,
                                                 Build(heap, builder.vs).slice)))
                                  ELSE None])
    /\ UNCHANGED << builder, got, payloadRest >>

\* the caller reads the path of the typed value from the payload k with the
\* accessor of the type
Access(k) ==
    /\ got # None
    /\ got.out = None
    /\ k \in 1..Len(built)
    /\ got' = [got EXCEPT
                 !.from = k,
                 !.intact = (Elems(heap, Values(built[k].vs)) = built[k].at),
                 !.out = GetKeysetValue(Elems(heap, built[k].vs),
                                        got.type, got.key)]
    /\ UNCHANGED << heap, builder, built, payloadRest >>

\* the caller writes into the slice that Values() returned, p.Values()[i] = v
\* (the first write of a run is followed)
WriteValues(k, i) ==
    /\ k \in 1..Len(built)
    /\ i \in 1..Values(built[k].vs).len
    /\ \A m \in 1..Len(built) : Elems(heap, Values(built[m].vs)) = built[m].at
    /\ heap' = [heap EXCEPT ![Values(built[k].vs).arr][i] = Overwrite]
    /\ UNCHANGED << builder, built, got, payloadRest >>

NextPayload ==
    \/ AddString
    \/ AddTyped
    \/ BuildPayload
    \/ \E k \in 1..MaxBuilds : Access(k)
    \/ \E k \in 1..MaxBuilds, i \in 1..MaxAdds : WriteValues(k, i)

SpecPayload == InitPayload /\ [][NextPayload]_vars

(* ------------------ the books: columns and their values ---------------- *)

StrDisplayName == <<100, 105, 115, 112, 108, 97, 121, 95, 110, 97, 109, 101>>
StrCreatedAt == <<99, 114, 101, 97, 116, 101, 100, 95, 97, 116>>

\* the bytes bs in lower-case hexadecimal
RECURSIVE HexOf(_)
HexOf(bs) ==
    IF bs = <<>> THEN <<>>
    ELSE << HexDigit(Head(bs) \div 16), HexDigit(Head(bs) % 16) >>
         \o HexOf(Tail(bs))

\* uuid.UUID.String: xxxxxxxx-xxxx-xxxx-xxxx-xxxxxxxxxxxx
UUIDString(u) ==
    HexOf(SubSeq(u, 1, 4)) \o << 45 >> \o HexOf(SubSeq(u, 5, 6)) \o << 45 >>
    \o HexOf(SubSeq(u, 7, 8)) \o << 45 >> \o HexOf(SubSeq(u, 9, 10))
    \o << 45 >> \o HexOf(SubSeq(u, 11, 16))

\* where the sixteen bytes start in the text of 36 characters
UUIDOffsets == << 1, 3, 5, 7, 10, 12, 15, 17, 20, 22, 25, 27, 29, 31, 33, 35 >>

\* uuid.Parse of a text of 36 characters; the other lengths it accepts (32,
\* 38 and 45) are the lengths of no text that reaches it here
UUIDParse(s) ==
    IF Len(s) # 36 THEN Err("invalid UUID length")
    ELSE IF s[9] # 45 \/ s[14] # 45 \/ s[19] # 45 \/ s[24] # 45
    THEN Err("invalid UUID format")
    ELSE IF \E i \in 1..16 :
                HexVal(s[UUIDOffsets[i]]) = 255
                    \/ HexVal(s[UUIDOffsets[i] + 1]) = 255
    THEN Err("invalid UUID format")
    ELSE Ok([i \in 1..16 |->
                HexVal(s[UUIDOffsets[i]]) * 16 + HexVal(s[UUIDOffsets[i] + 1])])

\* the callback of ListByKeyset, case "id", from payload.String on
valueFnID(v) ==
    IF v.err # "" THEN Err(v.err) ELSE UUIDParse(v.val)

\* the callback of ListByKeyset, cases "display_name" and "created_at", from
\* the accessor on
valueFnGot(v) ==
    IF v.err # "" THEN Err(v.err) ELSE Ok(v.val)

\* the callback ListByKeyset hands to KeysetWhereOrderLimit: the value of the
\* payload (its values are vs) to compare the column with
valueFn(column, vs) ==
    IF column = StrId THEN valueFnID(GetKeysetValue(vs, "String", column))
    ELSE IF column = StrDisplayName
    THEN valueFnGot(GetKeysetValue(vs, "String", column))
    ELSE IF column = StrCreatedAt
    THEN valueFnGot(GetKeysetValue(vs, "Time", column))
    ELSE Err("unknown column")

(* ------------------- keyset predicate expander (gorm) ------------------ *)

\* largest number of keys of a payload handed to the expander
MaxKeys == 3

KeysetValueOpEq == 0
KeysetValueOpLt == 1
KeysetValueOpGt == 2

KeysetFieldOpEq == 0
KeysetFieldOpLt == 1
KeysetFieldOpGt == 2

\* the text columns of the table queried: "a", "b", ...
ColumnName(i) == << 96 + i >>
Columns == { ColumnName(i) : i \in 1..MaxKeys }

\* a nil clause.Expression
Nil == [k |-> "nil"]

\* a KeysetValueFn of a caller: clause.Eq, clause.Lt or clause.Gt on the
\* text column named by the path, and an error for a path that names no column
columnFn(field, v, op) ==
    IF field \in Columns
    THEN Ok([k |-> "cmp", Column |-> field, Value |-> v, op |-> op])
    ELSE Err("unknown column")

\* the KeysetValueFn that compares a column of the books with the value that
\* the callback of ListByKeyset reads from the payload
bookFn(payload, field, v, op) ==
    IF valueFn(field, payload).st = "ok"
    THEN Ok([k |-> "cmp", Column |-> field,
             Value |-> valueFn(field, payload).val, op |-> op])
    ELSE valueFn(field, payload)

\* a KeysetValueFn of a caller that builds the strict comparisons of the
\* text columns and returns an error for an equality
rangeFn(field, v, op) ==
    IF op = KeysetValueOpEq THEN Err("equality not supported")
    ELSE columnFn(field, v, op)

\* the callbacks as values
ColumnFn == [fn |-> "columnFn"]
RangeFn == [fn |-> "rangeFn"]
BookFn(payload) == [fn |-> "bookFn", payload |-> payload]

\* the callbacks a caller hands to KeysetValuesExpr
FieldFns == { ColumnFn, RangeFn }

\* fieldFn(field, v, op)
Call(fieldFn, field, v, op) ==
    IF fieldFn.fn = "columnFn" THEN columnFn(field, v, op)
    ELSE IF fieldFn.fn = "rangeFn" THEN rangeFn(field, v, op)
    ELSE bookFn(fieldFn.payload, field, v, op)

\* clause.And: nothing for no expression, the expression itself for a single
\* one that is no OrConditions, AndConditions otherwise
And(exprs) ==
    IF Len(exprs) = 0 THEN Nil
    ELSE IF Len(exprs) = 1 /\ exprs[1].k # "or" THEN exprs[1]
    ELSE [k |-> "and", Exprs |-> exprs]

\* a clause.Or that wraps even no expression into OrConditions
OrOfNothing(exprs) == [k |-> "or", Exprs |-> exprs]

\* clause.Or: nothing for no expression, OrConditions otherwise
Or(exprs) ==
    IF Len(exprs) = 0 THEN Nil
    ELSE [k |-> "or", Exprs |-> exprs]

\* a call of fieldFn that is made even after an earlier call has failed
CalledAnyway(fieldFn, r, f, op) ==
    IF Call(fieldFn, f.Path, f.Value, op).st = "ok"
    THEN [r EXCEPT !.and = Append(@, Call(fieldFn, f.Path, f.Value, op).val),
                   !.calls = Append(@, << f.Path, f.Value, op >>)]
    ELSE [r EXCEPT !.st = "err",
                   !.err = Call(fieldFn, f.Path, f.Value, op).err,
                   !.calls = Append(@, << f.Path, f.Value, op >>)]

\* expr, err := fieldFn(f.Path, f.Value, op); if err != nil { return nil, err }
\* and = append(and, expr). r holds `and` and the calls made to fieldFn so far.
Called(fieldFn, r, f, op) ==
    IF r.st # "ok" THEN r
    ELSE IF Call(fieldFn, f.Path, f.Value, op).st = "ok"
    THEN [r EXCEPT !.and = Append(@, Call(fieldFn, f.Path, f.Value, op).val),
                   !.calls = Append(@, << f.Path, f.Value, op >>)]
    ELSE [r EXCEPT !.st = "err",
                   !.err = Call(fieldFn, f.Path, f.Value, op).err,
                   !.calls = Append(@, << f.Path, f.Value, op >>)]

\* or = append(or, clause.And(and...)), or the return of the error
Branch(s, r) ==
    IF r.st = "ok"
    THEN [s EXCEPT !.or = Append(@, And(r.and)), !.calls = r.calls]
    ELSE [s EXCEPT !.st = "err", !.err = r.err, !.calls = r.calls]

\* and := []clause.Expression{} in the state s of the outer loop
NewAnd(s) == [st |-> s.st, err |-> "", and |-> <<>>, calls |-> s.calls]

\* or := []clause.Expression{}
NewOr == [st |-> "ok", err |-> "", or |-> <<>>, calls |-> <<>>]

\* return clause.Or(or...), nil
ReturnOr(s) ==
    IF s.st = "ok"
    THEN [st |-> "ok", err |-> "", val |-> Or(s.or), calls |-> s.calls]
    ELSE [st |-> "err", err |-> s.err, val |-> Nil, calls |-> s.calls]

\* an inner loop that stops one entry early: for j := 0; j < i-1; j++
RECURSIVE ValuesEqShort(_, _, _, _, _)
ValuesEqShort(fields, fieldFn, i, j, r) ==
    IF j < i - 1 /\ r.st = "ok"
    THEN ValuesEqShort(fields, fieldFn, i, j + 1,
                       Called(fieldFn, r, fields[j + 1], KeysetValueOpEq))
    ELSE r

\* KeysetValuesExpr, the inner loop from j on: for j := 0; j < i; j++
\* (indices are those of the code; sequences start at 1)
RECURSIVE ValuesEq(_, _, _, _, _)
ValuesEq(fields, fieldFn, i, j, r) ==
    IF j < i /\ r.st = "ok"
    THEN ValuesEq(fields, fieldFn, i, j + 1,
                  Called(fieldFn, r, fields[j + 1], KeysetValueOpEq))
    ELSE r

\* a comparison with Lt and Gt the other way round
ValuesCmpSwapped(fields, fieldFn, i, r) ==
    Called(fieldFn, r, fields[i + 1],
           IF fields[i + 1].Order = OrderDesc THEN KeysetValueOpGt
           ELSE KeysetValueOpLt)

\* KeysetValuesExpr: the strict comparison on f := fields[i]
ValuesCmp(fields, fieldFn, i, r) ==
    Called(fieldFn, r, fields[i + 1],
           IF fields[i + 1].Order = OrderDesc THEN KeysetValueOpLt
           ELSE KeysetValueOpGt)

\* KeysetValuesExpr, the outer loop from i on: for i := 0; i < len(fields); i++
RECURSIVE ValuesOr(_, _, _, _)
ValuesOr(fields, fieldFn, i, s) ==
    IF i < Len(fields) /\ s.st = "ok"
    THEN ValuesOr(fields, fieldFn, i + 1,
                  Branch(s, ValuesCmp(fields, fieldFn, i,
                            ValuesEq(fields, fieldFn, i, 0, NewAnd(s)))))
    ELSE s

KeysetValuesExpr(fields, fieldFn) ==
    ReturnOr(ValuesOr(fields, fieldFn, 0, NewOr))

\* KeysetTokenCond, the inner loop from j on: for j := 0; j < i-1; j++
RECURSIVE CondEq(_, _, _, _, _)
CondEq(fs, fieldFn, i, j, r) ==
    IF j < i - 1 /\ r.st = "ok"
    THEN CondEq(fs, fieldFn, i, j + 1,
                Called(fieldFn, r, fs[j + 1], KeysetFieldOpEq))
    ELSE r

\* KeysetTokenCond: the strict comparison on f := fs[i]
CondCmp(fs, fieldFn, i, r) ==
    Called(fieldFn, r, fs[i + 1],
           IF fs[i + 1].Order = OrderDesc THEN KeysetFieldOpLt
           ELSE KeysetFieldOpGt)

\* KeysetTokenCond, the outer loop from i on: for i := 0; i < len(fs)-1; i++
RECURSIVE CondOr(_, _, _, _)
CondOr(fs, fieldFn, i, s) ==
    IF i < Len(fs) - 1 /\ s.st = "ok"
    THEN CondOr(fs, fieldFn, i + 1,
                Branch(s, CondCmp(fs, fieldFn, i,
                          CondEq(fs, fieldFn, i, 0, NewAnd(s)))))
    ELSE s

\* KeysetTokenCond on a token whose Fields() are fs
KeysetTokenCond(fs, fieldFn) == ReturnOr(CondOr(fs, fieldFn, 0, NewOr))

\* the order of two values of a column in the database: element by element
\* (the bytes of a text or of a uuid, the fields of a time)
RECURSIVE StrLess(_, _)
StrLess(a, b) ==
    IF b = <<>> THEN FALSE
    ELSE IF a = <<>> THEN TRUE
    ELSE IF a[1] # b[1] THEN a[1] < b[1]
    ELSE StrLess(Tail(a), Tail(b))

\* what clause.Eq, clause.Lt and clause.Gt select: column = ?, < ?, > ?
Compare(op, x, v) ==
    IF op = KeysetValueOpEq THEN x = v
    ELSE IF op = KeysetValueOpLt THEN StrLess(x, v)
    ELSE StrLess(v, x)

\* the rows an expression selects; no expression selects every row
RECURSIVE Holds(_, _)
Holds(e, row) ==
    IF e.k = "cmp" THEN Compare(e.op, row[e.Column], e.Value)
    ELSE IF e.k = "and" THEN \A n \in 1..Len(e.Exprs) : Holds(e.Exprs[n], row)
    ELSE IF e.k = "or" THEN \E n \in 1..Len(e.Exprs) : Holds(e.Exprs[n], row)
    ELSE TRUE

\* the values of a column, in the order of the database: "1" < "10" < "2" < "3"
Str2 == <<50>>
Str3 == <<51>>
Str10 == <<49, 48>>
RowValues == { Str1, Str10, Str2, Str3 }

\* the values of a cursor
CursorValues == { Str10, Str2 }

Rows == [Columns -> RowValues]

\* the key lists over the columns "a", "b", ... in this order
KeyLists(n) ==
    { [i \in 1..n |-> KeysetValue(ColumnName(i), v[i], o[i])] :
        v \in [1..n -> CursorValues], o \in [1..n -> {OrderAsc, OrderDesc}] }

\* the key lists of which one path names no column
UnknownKeyLists(n) ==
    { [i \in 1..n |-> KeysetValue(IF i = k THEN StrX ELSE ColumnName(i),
                                  Str2, OrderAsc)] : k \in 1..n }

ExpanderInputs ==
    UNION { KeyLists(n) \cup UnknownKeyLists(n) : n \in 0..MaxKeys }

InitExpander ==
    /\ ExpanderIdle
    /\ SessionIdle
    /\ CodecIdle
    /\ RepoIdle
    /\ PayloadIdle
    /\ ReaderIdle
    /\ ChecksumIdle
    /\ KeysIdle
    /\ TokensIdle

\* a caller builds the condition of a payload's values
CallValuesExpr ==
    /\ ex = None
    /\ \E fields \in ExpanderInputs, fieldFn \in FieldFns :
          ex' = [fn |-> "KeysetValuesExpr", by |-> fieldFn, fields |-> fields,
                 out |-> KeysetValuesExpr(fields, fieldFn)]
    /\ UNCHANGED << hit, expanderRest >>

\* a caller builds the condition of a token's fields
CallTokenCond ==
    /\ ex = None
    /\ \E fs \in ExpanderInputs :
          ex' = [fn |-> "KeysetTokenCond", by |-> ColumnFn, fields |-> fs,
                 out |-> KeysetTokenCond(fs, ColumnFn)]
    /\ UNCHANGED << hit, expanderRest >>

\* the database decides whether a row satisfies the condition built
Where ==
    /\ ex # None
    /\ hit = None
    /\ ex.out.st = "ok"
    /\ \E row \in Rows :
          hit' = [row |-> row, ok |-> Holds(ex.out.val, row)]
    /\ UNCHANGED << ex, expanderRest >>

NextExpander ==
    \/ CallValuesExpr
    \/ CallTokenCond
    \/ Where

SpecExpander == InitExpander /\ [][NextExpander]_vars

(* -------------------- BooksRepository.ListByKeyset --------------------- *)

\* largest page size of a request
MaxPageSize == 2

\* number of ListByKeyset calls a caller is followed for
MaxLists == 3

BookColumns == { StrId, StrDisplayName, StrCreatedAt }

\* a row of the table of books
Book(id, name, created) ==
    (StrId :> id) @@ (StrDisplayName :> name) @@ (StrCreatedAt :> created)

\* the uuid whose last byte is n
UUID(n) == [i \in 1..16 |-> IF i = 16 THEN n ELSE 0]

\* r.DB.Model(&model.Book{}): no condition, no order, no limit
NewQuery == [where |-> <<>>, order |-> <<>>, limit |-> -1]

orderToSQL(o) == IF o = OrderAsc THEN "ASC" ELSE "DESC"

\* keyset == nil || len(keyset.Values()) == 0
IsEmptyKeyset(keyset) == keyset = NilPayload \/ Len(Values(keyset.vs)) = 0

\* q.Order for every value of the payload: ORDER BY p0 o0, p1 o1, ...
OrderByValues(q, vs) ==
    [q EXCEPT !.order =
        @ \o [i \in 1..Len(vs) |-> << vs[i].Path, orderToSQL(vs[i].Order) >>]]

\* KeysetWhereOrderLimit, from the expression of the expander on
KeysetWhereOrder(q, keyset, e) ==
    IF e.st # "ok" THEN Err(e.err)
    ELSE Ok(OrderByValues([q EXCEPT !.where = Append(@, e.val)],
                          Values(keyset.vs)))

\* KeysetWhereOrderLimit with the callback of ListByKeyset: for a payload
\* with values, the condition of the expander and the order of the payload;
\* the query as it is otherwise
KeysetWhereOrderLimit(q, keyset) ==
    IF IsEmptyKeyset(keyset) THEN Ok(q)
    ELSE KeysetWhereOrder(q, keyset,
                          KeysetValuesExpr(Values(keyset.vs),
                                           BookFn(Values(keyset.vs))))

\* the order a query without keyset gets: created_at DESC, or the entries of
\* the default order
DefaultOrder(q, order) ==
    IF Len(order) = 0
    THEN [q EXCEPT !.order = Append(@, << StrCreatedAt, "DESC" >>)]
    ELSE [q EXCEPT !.order =
            @ \o [i \in 1..Len(order) |->
                    << order[i].Column, orderToSQL(order[i].Order) >>]]

\* ListByKeyset from the error check of KeysetWhereOrderLimit to q.Limit
Limited(pageSize, order, keyset, q) ==
    IF q.st # "ok" THEN Err("failed to apply keyset")
    ELSE IF IsEmptyKeyset(keyset)
    THEN Ok([DefaultOrder(q.val, order) EXCEPT !.limit = pageSize + 1])
    ELSE Ok([q.val EXCEPT !.limit = pageSize + 1])

\* the query ListByKeyset hands to Find
Query(pageSize, order, keyset) ==
    Limited(pageSize, order, keyset, KeysetWhereOrderLimit(NewQuery, keyset))

\* the rows of the table that satisfy every condition of the query
Selected(q, table) ==
    { row \in table : \A n \in 1..Len(q.where) : Holds(q.where[n], row) }

\* the row a comes before the row b in the ORDER BY order
RECURSIVE RowBefore(_, _, _)
RowBefore(a, b, order) ==
    IF order = <<>> THEN FALSE
    ELSE IF a[order[1][1]] = b[order[1][1]] THEN RowBefore(a, b, Tail(order))
    ELSE IF order[1][2] = "ASC" THEN StrLess(a[order[1][1]], b[order[1][1]])
    ELSE StrLess(b[order[1][1]], a[order[1][1]])

\* the sequences the database may return the rows in: rows that tie on every
\* key of the order come in any order
Sorted(rows, order) ==
    { p \in [1..Cardinality(rows) -> rows] :
        /\ \A i, j \in 1..Cardinality(rows) : i # j => p[i] # p[j]
        /\ \A i \in 1..(Cardinality(rows) - 1) : ~RowBefore(p[i + 1], p[i], order) }

\* the first n elements of s, all of them when n is negative or too large
Limit(s, n) == IF n < 0 \/ n > Len(s) THEN s ELSE Take(s, n)

\* q.Find(&ms): an order by a column the table has not is an error
Find(q, table) ==
    IF \E i \in 1..Len(q.order) : q.order[i][1] \notin BookColumns
    THEN { Err("failed to query books") }
    ELSE { Ok(Limit(p, q.limit)) : p \in Sorted(Selected(q, table), q.order) }

\* the adder calls of the default setter: an empty value for every column
\* of the default order that the table has
RECURSIVE DefaultAdds(_)
DefaultAdds(values) ==
    IF values = <<>> THEN <<>>
    ELSE IF Head(values).Column \in { StrId, StrDisplayName }
    THEN << << "String", Head(values).Column, <<>>, Head(values).Order >> >>
         \o DefaultAdds(Tail(values))
    ELSE IF Head(values).Column = StrCreatedAt
    THEN << << "Time", Head(values).Column, ZeroTime, Head(values).Order >> >>
         \o DefaultAdds(Tail(values))
    ELSE DefaultAdds(Tail(values))

\* the adder calls that take the values of the book m for the paths of values
RECURSIVE NextAdds(_, _)
NextAdds(m, values) ==
    IF values = <<>> THEN <<>>
    ELSE IF Head(values).Path = StrId
    THEN << << "String", StrId, UUIDString(m[StrId]), Head(values).Order >> >>
         \o NextAdds(m, Tail(values))
    ELSE IF Head(values).Path = StrDisplayName
    THEN << << "String", StrDisplayName, m[StrDisplayName],
               Head(values).Order >> >>
         \o NextAdds(m, Tail(values))
    ELSE IF Head(values).Path = StrCreatedAt
    THEN << << "Time", StrCreatedAt, m[StrCreatedAt], Head(values).Order >> >>
         \o NextAdds(m, Tail(values))
    ELSE NextAdds(m, Tail(values))

\* the adder calls adds on a builder whose heap and slice are r
RECURSIVE AddAll(_, _)
AddAll(r, adds) ==
    IF adds = <<>> THEN r
    ELSE AddAll(Add(r.heap, r.slice, Head(adds)[1], Head(adds)[2],
                    Head(adds)[3], Head(adds)[4]), Tail(adds))

\* Build on the builder whose heap and slice are r: the values of the payload
Built(r) == Elems(Build(r.heap, r.slice).heap, Build(r.heap, r.slice).slice)

\* NewKeysetPayloadBuilder(), the adder calls adds, Build()
BuiltValues(adds) ==
    KeysetPayload(Built(AddAll([heap |-> <<>>, slice |-> NilSlice], adds)))

\* the keyset whose paths and orders the next payload takes: the one given,
\* or one made from the default order
Template(order, keyset) ==
    IF ~IsEmptyKeyset(keyset) THEN keyset
    ELSE IF Len(order) = 0
    THEN BuiltValues(<< << "Time", StrCreatedAt, ZeroTime, OrderDesc >> >>)
    ELSE BuiltValues(DefaultAdds(order))

\* a choice of the extra row: nextItem := ms[pageSize]
nextItemExtra(ms, pageSize) == ms[pageSize + 1]

\* nextItem := ms[pageSize-1]
nextItem(ms, pageSize) == ms[(pageSize - 1) + 1]

\* a minPageSize that keeps every row fetched
minPageSizeAll(a, b) == a

minPageSize(a, b) == IF a < b THEN a ELSE b

\* what ListByKeyset returns; fetched keeps the rows Find returned
Listed(ms, nextPayload, err, fetched) ==
    [ms |-> ms, next |-> nextPayload, err |-> err, fetched |-> fetched]

\* ListByKeyset from the error check of Find on
ListFound(pageSize, order, keyset, found) ==
    IF found.st # "ok" THEN Listed(<<>>, NilPayload, found.err, <<>>)
    ELSE IF Len(found.val) > pageSize
    THEN IF pageSize - 1 < 0
         THEN Listed(<<>>, NilPayload, IndexPanic, found.val)
         ELSE Listed(Take(found.val, minPageSize(Len(found.val), pageSize)),
                     BuiltValues(NextAdds(nextItem(found.val, pageSize),
                                          Values(Template(order, keyset).vs))),
                     "", found.val)
    ELSE Listed(Take(found.val, minPageSize(Len(found.val), pageSize)),
                NilPayload, "", found.val)

\* ListByKeyset from the query on: one result for every sequence the
\* database may return
ListQueried(table, pageSize, order, keyset, q) ==
    IF q.st # "ok" THEN { Listed(<<>>, NilPayload, q.err, <<>>) }
    ELSE { ListFound(pageSize, order, keyset, found) :
             found \in Find(q.val, table) }

\* BooksRepository.ListByKeyset with an empty filter
ListByKeyset(table, pageSize, order, keyset) ==
    ListQueried(table, pageSize, order, keyset,
                Query(pageSize, order, keyset))

\* the books of the table
Book1 == Book(UUID(1), StrA, << 2024, 2, 29, 23, 59, 59, 0 >>)
Book2 == Book(UUID(2), StrA, << 2024, 2, 29, 23, 59, 59, 120000000 >>)
Book3 == Book(UUID(171), StrI, << 2024, 2, 29, 23, 59, 59, 120000000 >>)
Book4 == Book(UUID(4), StrS, << 2025, 1, 1, 0, 0, 0, 1 >>)
Book5 == Book(UUID(16), StrEsc, ZeroTime)

Tables == { {}, { Book1 }, { Book1, Book2, Book3 },
            { Book1, Book2, Book3, Book4, Book5 } }

DefaultOrderEntry(column, order) == [Column |-> column, Order |-> order]

\* the default orders of a request (order_by)
Orders ==
    { <<>>,
      << DefaultOrderEntry(StrId, OrderAsc) >>,
      << DefaultOrderEntry(StrDisplayName, OrderDesc),
         DefaultOrderEntry(StrId, OrderAsc) >>,
      << DefaultOrderEntry(StrCreatedAt, OrderAsc) >>,
      << DefaultOrderEntry(StrCreatedAt, OrderAsc),
         DefaultOrderEntry(StrId, OrderDesc) >>,
      << DefaultOrderEntry(StrX, OrderAsc) >> }

\* the payloads of the token of a first request: none, an empty one, one
\* with a path that is no column, one whose id is no uuid, and a cursor
FirstKeysets ==
    { NilPayload,
      KeysetPayload(<<>>),
      KeysetPayload(<< KeysetValue(StrX, Str7, OrderAsc) >>),
      KeysetPayload(<< KeysetValue(StrId, Str7, OrderAsc) >>),
      KeysetPayload(<< KeysetValue(StrDisplayName, StrA, OrderAsc),
                       KeysetValue(StrId, UUIDString(UUID(1)), OrderDesc) >>) }

InitRepo ==
    /\ repo \in [table : Tables, pageSize : 1..MaxPageSize, order : Orders]
    /\ listed = <<>>
    /\ SessionIdle
    /\ CodecIdle
    /\ ExpanderIdle
    /\ PayloadIdle
    /\ ReaderIdle
    /\ ChecksumIdle
    /\ KeysIdle
    /\ TokensIdle

\* the call ListByKeyset(ctx, ListFilter{}, pageSize, order, keyset) and
\* what it returned
Call1(keyset, out) == [keyset |-> keyset, out |-> out]

\* the first request of a client
ListFirst ==
    /\ listed = <<>>
    /\ \E keyset \in FirstKeysets :
          \E out \in ListByKeyset(repo.table, repo.pageSize, repo.order, keyset) :
              listed' = << Call1(keyset, out) >>
    /\ UNCHANGED << repo, repoRest >>

\* a request with the token of the page before
ListNext ==
    /\ listed # <<>>
    /\ Len(listed) < MaxLists
    /\ listed[Len(listed)].out.next # NilPayload
    /\ \E out \in ListByKeyset(repo.table, repo.pageSize, repo.order,
                               listed[Len(listed)].out.next) :
          listed' = Append(listed, Call1(listed[Len(listed)].out.next, out))
    /\ UNCHANGED << repo, repoRest >>

NextRepo ==
    \/ ListFirst
    \/ ListNext

SpecRepo == InitRepo /\ [][NextRepo]_vars

(* ------------------------- a payload and its reader -------------------- *)

\* an integer: its sign and its magnitude on five 16-bit limbs
Num(neg, mag) == [neg |-> neg, mag |-> mag]

\* 2^64
Pow64 == << 1, 0, 0, 0, 0 >>

\* the magnitudes at and next to the ends of the range of every width
Magnitudes ==
    { << 0, 0, 0, 0, 0 >>, << 0, 0, 0, 0, 7 >>,
      << 0, 0, 0, 0, 127 >>, << 0, 0, 0, 0, 128 >>, << 0, 0, 0, 0, 129 >>,
      << 0, 0, 0, 0, 255 >>, << 0, 0, 0, 0, 256 >>,
      << 0, 0, 0, 0, 32767 >>, << 0, 0, 0, 0, 32768 >>, << 0, 0, 0, 0, 32769 >>,
      << 0, 0, 0, 0, 65535 >>, << 0, 0, 0, 1, 0 >>,
      << 0, 0, 0, 32767, 65535 >>, << 0, 0, 0, 32768, 0 >>,
      << 0, 0, 0, 32768, 1 >>,
      << 0, 0, 0, 65535, 65535 >>, << 0, 0, 1, 0, 0 >>,
      << 0, 32767, 65535, 65535, 65535 >>, << 0, 32768, 0, 0, 0 >>,
      << 0, 32768, 0, 0, 1 >>,
      << 0, 65535, 65535, 65535, 65535 >>, Pow64 }

\* the integers a payload holds the text of
Numbers ==
    { Num(neg, mag) : neg \in BOOLEAN, mag \in Magnitudes }
        \ { Num(TRUE, << 0, 0, 0, 0, 0 >>) }

\* the decimal text of the integer n, as strconv.FormatInt and
\* strconv.FormatUint write it (of the magnitudes past 64 bits, 2^64 only)
Text(n) ==
    (IF n.neg THEN << 45 >> ELSE <<>>)
        \o (IF n.mag = Pow64 THEN Str2Pow64 ELSE FormatUint(Drop(n.mag, 1)))

StrPlus7 == << 43, 55 >>
Str007 == << 48, 48, 55 >>
Str1Space == << 49, 32 >>
StrT0 == << 48, 48, 48, 49, 45, 48, 49, 45, 48, 49, 84, 48, 48, 58, 48, 48,
            58, 48, 48, 90 >>

\* texts that are no integer in the form strconv writes
Texts ==
    { <<>>, StrX, StrPlus7, Str007, Str1Space, StrTrue, StrEsc,
      FormatTime(ZeroTime) }

\* what the first value of a payload was made from: the text of the integer
\* n, the Order o or the text t
MadeFrom(from, n, o, t) == [from |-> from, n |-> n, o |-> o, t |-> t]

\* the payloads a reader receives
ReaderPayloads ==
    { BuiltValues(<< << "String", StrA, Text(n),
                        IF n.neg THEN OrderDesc ELSE OrderAsc >> >>)
          @@ MadeFrom("integer", n, OrderDesc, Text(n)) : n \in Numbers }
    \cup { BuiltValues(<< << "Order", StrA, o, order >> >>)
               @@ MadeFrom("order", Num(FALSE, Pow64), o, <<>>) :
               o \in { OrderAsc, OrderDesc }, order \in { OrderAsc, OrderDesc } }
    \cup { BuiltValues(<< << "String", StrA, t, OrderAsc >>,
                          << "String", StrId, Str7, OrderDesc >> >>)
               @@ MadeFrom("text", Num(FALSE, Pow64), OrderDesc, t) :
               t \in Texts \cup { Str10 } }
    \cup { BuiltValues(<<>>) @@ MadeFrom("none", Num(FALSE, Pow64), OrderDesc, <<>>) }

\* the accessors
Accessors == Types \cup { "Time" }

\* the paths an accessor is called with; no payload has the path "x"
Keys == { StrA, StrId, StrX }

InitReader ==
    /\ kf \in ReaderPayloads
    /\ lookup = None
    /\ SessionIdle
    /\ CodecIdle
    /\ ExpanderIdle
    /\ RepoIdle
    /\ PayloadIdle
    /\ ChecksumIdle
    /\ KeysIdle
    /\ TokensIdle

\* kf.String(key), kf.Bool(key), kf.Int8(key), ..., GetKeysetValue(kf, key,
\* ParseOrder)
Lookup(type, key) ==
    /\ lookup = None
    /\ lookup' = [type |-> type, key |-> key,
                  out |-> GetKeysetValue(kf.vs, type, key),
                  decodes |-> DecodeCalls(kf.vs, key)]
    /\ UNCHANGED << kf, readerRest >>

\* the reader turns to its next call
Return ==
    /\ lookup # None
    /\ lookup' = None
    /\ UNCHANGED << kf, readerRest >>

NextReader ==
    \/ \E type \in Accessors, key \in Keys : Lookup(type, key)
    \/ Return

SpecReader == InitReader /\ [][NextReader]_vars

(* ---------------------------- checksum builders ------------------------ *)

\* largest number of Field options applied to a builder
MaxFields == 2

StrK == <<107>>
StrPlumless == <<112, 108, 117, 109, 108, 101, 115, 115>>
StrBuckeroo == <<98, 117, 99, 107, 101, 114, 111, 111>>

\* the Field options a caller applies
FieldOpts == { Field(StrK, StrPlumless), Field(StrK, StrBuckeroo) }

\* the Mask options a caller applies
MaskOpts == { Mask(U32(4660, 22136)), Mask(U32(0, 0)) }

\* a builder and the mask of the last Mask option applied to it (<<>>: no
\* Mask option was applied)
Held(cb, masked) == [cb |-> cb, masked |-> masked]

\* cb := checksum.NewBuilder(), twice
InitChecksum ==
    /\ builders = [i \in 1..2 |-> Held(NewBuilder(<<>>), <<>>)]
    /\ sums = [i \in 1..2 |-> None]
    /\ SessionIdle
    /\ CodecIdle
    /\ ExpanderIdle
    /\ RepoIdle
    /\ PayloadIdle
    /\ ReaderIdle
    /\ KeysIdle
    /\ TokensIdle

\* checksum.Field(key, value)(cb)
ApplyField(i) ==
    /\ sums[i] = None
    /\ Len(builders[i].cb.fields) < 2 * MaxFields
    /\ \E o \in FieldOpts :
          builders' = [builders EXCEPT
                         ![i] = Held(ApplyBuilderOpt(builders[i].cb, o),
                                     builders[i].masked)]
    /\ UNCHANGED << sums, checksumRest >>

\* checksum.Mask(mask)(cb), on the second builder; the first keeps the
\* default mask
ApplyMask ==
    /\ sums[2] = None
    /\ \E o \in MaskOpts :
          builders' = [builders EXCEPT
                         ![2] = Held(ApplyBuilderOpt(builders[2].cb, o),
                                     << o.mask >>)]
    /\ UNCHANGED << sums, checksumRest >>

\* crc, err := cb.Build()
BuildSum(i) ==
    /\ sums[i] = None
    /\ sums' = [sums EXCEPT ![i] = BuilderBuild(builders[i].cb)]
    /\ UNCHANGED << builders, checksumRest >>

NextChecksum ==
    \/ \E i \in 1..2 : ApplyField(i)
    \/ ApplyMask
    \/ \E i \in 1..2 : BuildSum(i)

SpecChecksum == InitChecksum /\ [][NextChecksum]_vars

(* ------------------------- key generation helpers ---------------------- *)

\* number of processes that generate keys
NumProcesses == 2

\* number of key generation calls a run is followed for
MaxKeyCalls == 3

\* a call of a helper in the process p and the key it returned
KeyCall(p, size, key) == [p |-> p, size |-> size, key |-> key]

InitKeys ==
    /\ keys = <<>>
    /\ SessionIdle
    /\ CodecIdle
    /\ ExpanderIdle
    /\ RepoIdle
    /\ PayloadIdle
    /\ ReaderIdle
    /\ ChecksumIdle
    /\ TokensIdle

\* encryption.Rand16ByteKey()
Rand16(p) ==
    /\ Len(keys) < MaxKeyCalls
    /\ keys' = Append(keys, KeyCall(p, 16, randKey(16)))
    /\ UNCHANGED keyRest

\* encryption.Rand24ByteKey()
Rand24(p) ==
    /\ Len(keys) < MaxKeyCalls
    /\ keys' = Append(keys, KeyCall(p, 24, randKey(24)))
    /\ UNCHANGED keyRest

\* encryption.Rand32ByteKey()
Rand32(p) ==
    /\ Len(keys) < MaxKeyCalls
    /\ keys' = Append(keys, KeyCall(p, 32, Rand32ByteKey))
    /\ UNCHANGED keyRest

NextKeys ==
    \/ \E p \in 1..NumProcesses : Rand16(p)
    \/ \E p \in 1..NumProcesses : Rand24(p)
    \/ \E p \in 1..NumProcesses : Rand32(p)

SpecKeys == InitKeys /\ [][NextKeys]_vars

(* --------------------------- tokens made by Next ----------------------- *)

\* number of Next calls a run is followed for
MaxNexts == 2

\* a token object: a KeysetToken holding a payload ("payload"), a KeysetToken
\* holding fields ("fields") or a Cursor ("cursor"). `payload` is the slice vs
\* of the payload the token points to, `fields` the slice of its fields.
TokenAt(knd, crc, e, payload, fields) ==
    [kind |-> knd, checksum |-> crc, e |-> e,
     payload |-> payload, fields |-> fields]

\* the memory: backing arrays and token objects
Memory(h, ts) == [mem |-> h, toks |-> ts]

\* WithKeysetField(key, value, order)
WithKeysetField(key, val, order) ==
    [opt |-> "WithKeysetField", field |-> KeysetValue(key, val, order)]

\* Field(key, value, order), the option of a Cursor
CursorField(key, val, order) ==
    [opt |-> "Field", field |-> KeysetValue(key, val, order)]

\* opt(newC) for the token at the address a: WithKeysetPayload assigns the
\* payload, WithKeysetField and Field append to the fields
ApplyOptAt(st, a, opt) ==
    IF opt.opt = "WithKeysetPayload"
    THEN Memory(st.mem, [st.toks EXCEPT ![a].payload = opt.payload])
    ELSE Memory(SliceAppend(st.mem, st.toks[a].fields, opt.field).heap,
                [st.toks EXCEPT ![a].fields =
                     SliceAppend(st.mem, st.toks[a].fields, opt.field).slice])

\* for _, opt := range opts { opt(newC) }
RECURSIVE ApplyOptsAt(_, _, _)
ApplyOptsAt(st, a, opts) ==
    IF opts = <<>> THEN st
    ELSE ApplyOptsAt(ApplyOptAt(st, a, Head(opts)), a, Tail(opts))

\* a Next that hands its own token to the options
NextInPlace(st, c, opts) ==
    ApplyOptsAt(Memory(st.mem,
                       Append(st.toks,
                              TokenAt(st.toks[c].kind, st.toks[c].checksum,
                                      st.toks[c].e,
                                      IF st.toks[c].kind = "payload"
                                      THEN st.toks[c].payload ELSE NilSlice,
                                      Slice(0, 0, 0)))),
                c, opts)

\* c.Next(opts...) for the token at the address c: the new token is allocated
\* at the next address; it gets the payload pointer of c (KeysetToken with a
\* payload) or an empty slice of fields, then e and checksum, then the options
NextAt(st, c, opts) ==
    ApplyOptsAt(Memory(st.mem,
                       Append(st.toks,
                              TokenAt(st.toks[c].kind, st.toks[c].checksum,
                                      st.toks[c].e,
                                      IF st.toks[c].kind = "payload"
                                      THEN st.toks[c].payload ELSE NilSlice,
                                      Slice(0, 0, 0)))),
                Len(st.toks) + 1, opts)

\* the slice d that String hands to tokenize
StringSlice(h, t) ==
    FlattenValues(Elems(h, IF t.kind = "payload" THEN t.payload ELSE t.fields))
    \o << FormatUint(ToUint64(t.checksum)) >>

\* c.String() for the token t
StringAt(h, t) == tokenize(t, StringSlice(h, t))

\* fs := []KeysetField{}; fs = append(fs, ...) for each entry, as Parse does
RECURSIVE AppendAll(_, _, _)
AppendAll(h, s, vs) ==
    IF vs = <<>> THEN [heap |-> h, slice |-> s]
    ELSE AppendAll(SliceAppend(h, s, Head(vs)).heap,
                   SliceAppend(h, s, Head(vs)).slice, Tail(vs))

\* the entries of the tokens and payloads a run starts with
Entries1 == << KeysetValue(StrId, Str7, OrderAsc) >>
Entries2 == << KeysetValue(StrN, StrA, OrderDesc),
               KeysetValue(StrId, Str42, OrderAsc) >>

\* the memory a run starts with: the arrays of two payloads and of the fields
\* of two parsed tokens, and three tokens, one of each kind
Parsed1 == AppendAll(<<>>, Slice(0, 0, 0), Entries1)
Parsed2 == AppendAll(Parsed1.heap, Slice(0, 0, 0), Entries2)
Parsed3 == AppendAll(Parsed2.heap, Slice(0, 0, 0), Entries2)
Parsed4 == AppendAll(Parsed3.heap, Slice(0, 0, 0), Entries1)

\* the options of a call, by the kind of the token
TokenOpts(knd) ==
    IF knd = "payload"
    THEN { WithKeysetPayload(Parsed1.slice), WithKeysetPayload(Parsed2.slice) }
    ELSE IF knd = "fields"
    THEN { WithKeysetField(StrId, Str8, OrderAsc),
           WithKeysetField(StrN, StrI, OrderDesc) }
    ELSE { CursorField(StrId, Str8, OrderAsc),
           CursorField(StrN, StrI, OrderDesc) }

\* the lists of at most two options
OptLists(knd) ==
    { <<>> } \cup { << o >> : o \in TokenOpts(knd) }
             \cup { << o, p >> : o \in TokenOpts(knd), p \in TokenOpts(knd) }

\* a Next call: the address of its token, the options, the address returned
NextCall(c, opts, new) == [src |-> c, opts |-> opts, new |-> new]

InitTokens ==
    /\ mem = Parsed4.heap
    /\ toks = << TokenAt("payload", U32(4660, 22136), Codec,
                         Parsed1.slice, NilSlice),
                 TokenAt("fields", U32(4660, 22136), Codec,
                         NilSlice, Parsed3.slice),
                 TokenAt("cursor", U32(0, 7), Codec,
                         NilSlice, Parsed4.slice) >>
    /\ run = <<>>
    /\ SessionIdle
    /\ CodecIdle
    /\ ExpanderIdle
    /\ RepoIdle
    /\ PayloadIdle
    /\ ReaderIdle
    /\ ChecksumIdle
    /\ KeysIdle

\* c.Next(opts...) on a token of the kind given
CallNext(knd) ==
    /\ Len(run) < MaxNexts
    /\ \E c \in 1..Len(toks) :
          /\ toks[c].kind = knd
          /\ \E opts \in OptLists(knd) :
                /\ mem' = NextAt(Memory(mem, toks), c, opts).mem
                /\ toks' = NextAt(Memory(mem, toks), c, opts).toks
                /\ run' = Append(run, NextCall(c, opts, Len(toks) + 1))
    /\ UNCHANGED tokenRest

\* KeysetToken.Next of a token that holds a payload
NextOfPayloadToken == CallNext("payload")

\* KeysetToken.Next of a token that holds fields
NextOfFieldToken == CallNext("fields")

\* Cursor.Next
NextOfCursor == CallNext("cursor")

NextTokens ==
    \/ NextOfPayloadToken
    \/ NextOfFieldToken
    \/ NextOfCursor

SpecTokens == InitTokens /\ [][NextTokens]_vars

(* ------------------------------ properties ----------------------------- *)

\* the request carried the token that the previous page of the session issued
Echoed == kind \in { "continue", "drift" }

\* what Parse returned is the token t, value by value
RoundTrip(t, p) ==
    /\ p.st = "ok"
    /\ p.val.payload.vs = t.payload.vs
    /\ p.val.checksum = t.checksum

\* every path and every value of the payload is valid UTF-8
ValidPayload(payload) ==
    \A i \in 1..Len(payload.vs) :
        ValidString(payload.vs[i].Path) /\ ValidString(payload.vs[i].Value)

\* C1, as stated: for every payload and checksum, Parse of the String() of a
\* token returns without error a token with the same values, in the same
\* order, and the same checksum.
C1_RoundTripAnyPayload == Echoed => RoundTrip(src, parsed)

\* C1, amended: Parse of the String() of a token whose paths and values are
\* valid UTF-8 returns without error a token with the same values, in the
\* same order, and the same checksum.
C1_RoundTrip == (Echoed /\ ValidPayload(src.payload)) => RoundTrip(src, parsed)

\* a token with two values has been serialized and parsed back
C1_Witness ==
    /\ Echoed
    /\ Len(src.payload.vs) = 2
    /\ ValidPayload(src.payload)
    /\ RoundTrip(src, parsed)

\* the checksum the request's fields produce differs from the one the
\* presented token was issued with
ChecksumDrift == Echoed /\ ExpectedChecksum(<<>>, req.fields) # src.checksum

\* C2: when Read receives a token issued with checksum c1 and the request's
\* checksum fields now produce c2 # c1, Read returns the checksum-mismatch
\* error and no token, and the handler issues nothing.
C2_ChecksumBinding ==
    ChecksumDrift =>
        /\ res.st = "err"
        /\ res.err = MismatchError
        /\ res.val = << src.checksum, ExpectedChecksum(<<>>, req.fields) >>
        /\ tok = None

\* a token carrying a payload was presented with other fields and refused
C2_Witness ==
    /\ kind = "drift"
    /\ Len(src.payload.vs) >= 1
    /\ parsed.st = "ok"
    /\ res.err = MismatchError

\* the request is a later page of a session whose requests all echoed the
\* token of the page before
Chained == kind = "continue"

\* what C3 promises of a later page
SessionHolds ==
    /\ res.st = "ok"
    /\ res.val.payload.vs = src.payload.vs
    /\ src.checksum = first
    /\ res.val.checksum = first
    /\ tok # None => tok.checksum = first

C4_Bootstrap ==
    kind = "bootstrap" =>
        /\ res.st = "ok"
        /\ res.val.payload.vs = <<>>
        /\ res.val.checksum = ExpectedChecksum(<<>>, req.fields)
        /\ res.decrypts = 0
        /\ parsed = None

\* a bootstrap request with two checksum fields has been read
C4_Witness ==
    /\ kind = "bootstrap"
    /\ req.pageToken = <<>>
    /\ Len(req.fields) = 2
    /\ res.st = "ok"

\* C5: t.Next(WithKeysetPayload(P)) returns a token with the checksum and the
\* codec of t and the payload P; the checksum stays the one fixed at issuance.
C5_NextKeepsBinding ==
    tok # None =>
        /\ tok.checksum = res.val.checksum
        /\ tok.e = res.val.e
        /\ tok.payload = next
        /\ tok.checksum = first

\* Next has replaced a non-empty payload by another one
C5_Witness ==
    /\ tok # None
    /\ Len(res.val.payload.vs) >= 1
    /\ tok.payload # res.val.payload
    /\ tok.checksum = res.val.checksum

\* C6: the checksum Read computes is the one a checksum.Builder yields when
\* given the options configured with WithChecksumOpts and then the request's
\* fields.
C6_ConfiguredChecksum ==
    kind = "bootstrap" =>
        /\ res.st = "ok"
        /\ res.val.checksum = ExpectedChecksum(rr.checksumOpts, req.fields)

\* the plaintext the codec recovers from the page token of the request
Plaintext == Decrypt(rr.e, req.pageToken)

\* the array of strings the plaintext decodes to
Decoded == JsonUnmarshal(Plaintext.val)

\* the page token decrypts to a JSON value that decodes to an array
DecodesToArray ==
    /\ kind = "sealed"
    /\ Plaintext.st = "ok"
    /\ Decoded.st = "ok"

\* C7: for a token that decrypts to a JSON value whose array length L does
\* not satisfy (L - 1) mod 3 = 0, Parse returns an error: neither a token nor
\* a crash.
C7_StructuralCheck ==
    (DecodesToArray /\ (Len(Decoded.val) - 1) % 3 # 0) => parsed.st = "err"

IsDigits(s) == \A i \in 1..Len(s) : s[i] \in 48..57

RECURSIVE StripZeros(_)
StripZeros(s) ==
    IF Len(s) > 1 /\ Head(s) = 48 THEN StripZeros(Tail(s)) ELSE s

\* a and b are digit strings of the same length: a >= b as numbers
RECURSIVE DigitsGeq(_, _)
DigitsGeq(a, b) ==
    IF a = <<>> THEN TRUE
    ELSE IF Head(a) # Head(b) THEN Head(a) > Head(b)
    ELSE DigitsGeq(Tail(a), Tail(b))

\* s is a decimal number that does not fit in 32 bits
ExceedsUint32(s) ==
    /\ s # <<>>
    /\ IsDigits(s)
    /\ LET d == StripZeros(s)
       IN  \/ Len(d) > Len(Str2Pow32)
           \/ Len(d) = Len(Str2Pow32) /\ DigitsGeq(d, Str2Pow32)

\* C8: when the trailing array element is a decimal number >= 2^32, Parse
\* fails; a token carrying c + 2^32 is never accepted as carrying c.
C8_ChecksumWidth ==
    (/\ DecodesToArray
     /\ Len(Decoded.val) >= 1
     /\ ExceedsUint32(Decoded.val[Len(Decoded.val)]))
        => (parsed.st = "err" /\ res.st = "err")

\* C9: every string that differs from an issued token string by one flipped
\* bit is rejected by Parse with an error.
C9_TamperDetection == kind = "tamper" => parsed.st = "err"

\* the page token was rejected for one of the decryption failures: malformed
\* base64, a decoded length below the nonce size, a failed authentication or
\* a plaintext that is no JSON array of strings
DecryptionFailure ==
    /\ kind \in { "tamper", "sealed", "garbage" }
    /\ parsed.st = "err"
    /\ \/ Plaintext.st # "ok"
       \/ Decoded.st # "ok"

\* the error of one rejected token, the string "!"
ReferenceError == Parse(NewKeysetTokenParser(Codec), << 33 >>).err

\* C10: every decryption failure is reported as one and the same error; two
\* rejected tokens cannot be told apart by their error.
C10_NoFailureOracle == DecryptionFailure => parsed.err = ReferenceError

\* C11: each Encrypt call generates a fresh nonce: no two Encrypt calls made
\* with the same key use the same nonce, and two calls with the same plaintext
\* return different token strings.
C11_FreshNonce ==
    \A i, j \in 1..Len(calls) :
        i < j =>
            /\ calls[i].nonce # calls[j].nonce
            /\ calls[i].d = calls[j].d => calls[i].token # calls[j].token

\* C12: with one codec shared by several callers, for every key size and
\* every interleaving, each Decrypt applied to the output of an Encrypt(x)
\* returns exactly x without error, and the codec stays as it was constructed.
C12_SharedCodec ==
    shared # None =>
        /\ shared = NewAEADEncryptor(randKey(Len(shared.key))).val
        /\ \A c \in 1..NumCallers :
              callers[c].pc = "decrypted" => callers[c].out = Ok(callers[c].d)

\* one caller has decrypted the ten-byte plaintext that another call sealed,
\* while the other caller is in the middle of an Encrypt call
C12_Witness ==
    /\ shared # None
    /\ \E c, o \in 1..NumCallers :
          /\ c # o
          /\ callers[c].pc = "decrypted"
          /\ Len(callers[c].d) = 10
          /\ callers[c].out = Ok(callers[c].d)
          /\ callers[o].pc = "nonce"

(* ------------------------ the predicate expander ----------------------- *)

\* the call made was KeysetValuesExpr and it returned an expression
ValuesExprBuilt ==
    /\ ex # None
    /\ ex.fn = "KeysetValuesExpr"
    /\ ex.out.st = "ok"

\* the row comes strictly after the cursor vs, looking at the keys from i on:
\* the first key on which they differ decides, '>' if ascending, '<' if not
RECURSIVE After(_, _, _)
After(row, vs, i) ==
    IF i > Len(vs) THEN FALSE
    ELSE IF row[vs[i].Path] = vs[i].Value THEN After(row, vs, i + 1)
    ELSE IF vs[i].Order = OrderAsc THEN StrLess(vs[i].Value, row[vs[i].Path])
    ELSE StrLess(row[vs[i].Path], vs[i].Value)

\* the row has the cursor's value on every key
OnCursor(row, vs) == \A i \in 1..Len(vs) : row[vs[i].Path] = vs[i].Value

\* C13: for a payload of one key or more, the expression built by
\* KeysetValuesExpr selects a row exactly when the row comes strictly after
\* the cursor in the lexicographic order of the payload ('>' on an ascending
\* key, '<' on a descending one); a row equal to the cursor on every key is
\* not selected.
C13_ExpanderSemantics ==
    (ValuesExprBuilt /\ Len(ex.fields) >= 1 /\ hit # None) =>
        /\ hit.ok = After(hit.row, ex.fields, 1)
        /\ OnCursor(hit.row, ex.fields) => ~hit.ok

\* a row that ties with the cursor on the first key, is before it on the
\* second (descending) one and is selected
C13_Witness ==
    /\ ValuesExprBuilt
    /\ Len(ex.fields) = MaxKeys
    /\ hit # None
    /\ ex.fields[1].Order = OrderAsc
    /\ ex.fields[2].Order = OrderDesc
    /\ hit.row[ColumnName(1)] = ex.fields[1].Value
    /\ StrLess(hit.row[ColumnName(2)], ex.fields[2].Value)
    /\ hit.ok

\* the conjuncts of a branch: those of an AndConditions, or the one expression
Conjuncts(e) == IF e.k = "and" THEN e.Exprs ELSE << e >>

IsCmp(e, f, op) ==
    e = [k |-> "cmp", Column |-> f.Path, Value |-> f.Value, op |-> op]

\* the branch b is i - 1 equalities on the entries before the i-th, in payload
\* order, and then one strict comparison on the i-th entry
BranchShape(b, fields, i) ==
    /\ b.k \in { "and", "cmp" }
    /\ Len(Conjuncts(b)) = i
    /\ \A j \in 1..(i - 1) : IsCmp(Conjuncts(b)[j], fields[j], KeysetValueOpEq)
    /\ IsCmp(Conjuncts(b)[i], fields[i],
             IF fields[i].Order = OrderDesc THEN KeysetValueOpLt
             ELSE KeysetValueOpGt)

\* the expression e is one OR-branch per entry of fields, each of the shape
\* above
ExprShape(e, fields) ==
    /\ e.k = "or"
    /\ Len(e.Exprs) = Len(fields)
    /\ \A i \in 1..Len(fields) : BranchShape(e.Exprs[i], fields, i)

\* C14: for a payload of n >= 1 entries KeysetValuesExpr emits exactly n
\* OR-branches; the i-th (from 0) is exactly i equalities, on the entries
\* 0..i-1 in payload order, followed by exactly one strict comparison on entry
\* i: Lt when the entry is descending, Gt when it is ascending.
C14_ExpanderShape ==
    (ValuesExprBuilt /\ Len(ex.fields) >= 1) => ExprShape(ex.out.val, ex.fields)

C14_Witness ==
    /\ ValuesExprBuilt
    /\ Len(ex.fields) = MaxKeys
    /\ ex.fields[MaxKeys].Order = OrderDesc
    /\ ex.fields[1].Order = OrderAsc
    /\ Len(ex.out.val.Exprs) = MaxKeys
    /\ Len(ex.out.val.Exprs[MaxKeys].Exprs) = MaxKeys

\* C15: for a token of n >= 1 fields KeysetTokenCond emits n OR-branches, the
\* i-th (from 0) being i equalities followed by one strict comparison on
\* field i: the last key is included and no equality is missing.
C15_TokenCondShape ==
    (ex # None /\ ex.fn = "KeysetTokenCond" /\ ex.out.st = "ok"
        /\ Len(ex.fields) >= 1) =>
        ExprShape(ex.out.val, ex.fields)

\* C16: for a payload without entries KeysetValuesExpr returns no expression
\* and no error, and never calls fieldFn.
C16_EmptyPayload ==
    (ex # None /\ ex.fn = "KeysetValuesExpr" /\ ex.fields = <<>>) =>
        /\ ex.out.st = "ok"
        /\ ex.out.val = Nil
        /\ ex.out.calls = <<>>

\* the empty payload was expanded and the database was asked about a row
C16_Witness ==
    /\ ex # None
    /\ ex.fn = "KeysetValuesExpr"
    /\ ex.fields = <<>>
    /\ ex.out.st = "ok"
    /\ hit # None
    /\ hit.ok

(* --------------------- payload builder and payload --------------------- *)

\* the typed value was added, a payload built afterwards was read with the
\* accessor of the type, the value is the first entry of its path, and nothing
\* was written to the payload between Build and the read
ReadBack ==
    /\ got # None
    /\ got.out # None
    /\ got.intact
    /\ got.at <= Len(built[got.from].at)
    /\ \A j \in 1..(got.at - 1) : built[got.from].at[j].Path # got.key

\* C18: for every path, order and value of a built-in type (string, bool,
\* signed and unsigned integers of every width), adding the value with the
\* typed adder, calling Build and reading the path with the accessor of the
\* type returns exactly that value and that order, without error; so do
\* AddKeysetValue and GetKeysetValue with functions that are inverses.
C18_PayloadRoundTrip ==
    ReadBack => got.out = Got(got.v, got.order, "")

\* the smallest int64 was added after another entry and read back
C18_Witness ==
    /\ ReadBack
    /\ got.type = "Int64"
    /\ got.v = SInt(TRUE, << 32768, 0, 0, 0 >>)
    /\ got.at = 2
    /\ got.out = Got(got.v, got.order, "")

\* an adder call is made
AdderStep == builder'.adds = builder.adds + 1

\* Build returns a payload
BuildStep == Len(built') = Len(built) + 1

\* s is the start of t
StartsWith(t, s) == Len(s) <= Len(t) /\ Take(t, Len(s)) = s

\* C19: whatever adder and Build calls are made on a builder, every payload
\* an earlier Build returned keeps exactly the values it had when built, and
\* a payload built after k more adder calls holds the values of the earlier
\* one followed by k more, in insertion order.
C19_BuilderIsolation ==
    [][ (AdderStep \/ BuildStep) =>
          /\ \A k \in 1..Len(built) :
                /\ built'[k] = built[k]
                /\ Elems(heap', built'[k].vs) = Elems(heap, built[k].vs)
          /\ BuildStep =>
                \A k \in 1..Len(built) :
                    /\ StartsWith(Elems(heap', built'[Len(built')].vs),
                                  built[k].at)
                    /\ Len(Elems(heap', built'[Len(built')].vs))
                         = Len(built[k].at) + (builder.adds - built[k].adds)
      ]_vars

\* a payload of one value, and a later one of two built after one more add
C19_Witness ==
    /\ Len(built) = 2
    /\ built[1].adds = 1
    /\ built[2].adds = 2
    /\ Elems(heap, built[1].vs) = built[1].at
    /\ Len(Elems(heap, built[2].vs)) = 2

\* C20: once built, a payload's sequence of (path, value, order) never
\* changes, whatever is done afterwards with the payload, with the slice
\* Values() returned or with its builder: every later accessor sees the
\* sequence the payload was built with.
C20_PayloadImmutable ==
    \A k \in 1..Len(built) : Elems(heap, built[k].vs) = built[k].at

(* ------------------------- the books repository ------------------------ *)

\* the text the payload holds for a column of the row
ColumnText(row, column) ==
    IF column = StrId THEN UUIDString(row[column])
    ELSE IF column = StrCreatedAt THEN FormatTime(row[column])
    ELSE row[column]

\* every value of the payload is the text of the row's column of that path
Supplies(row, payload) ==
    /\ payload # NilPayload
    /\ Len(payload.vs) >= 1
    /\ \A i \in 1..Len(payload.vs) :
          payload.vs[i].Value = ColumnText(row, payload.vs[i].Path)

\* the call fetched at most pageSize + 1 rows, returned at most pageSize of
\* them, and made a next payload exactly when it fetched pageSize + 1
FetchOneExtra(c) ==
    /\ Len(c.out.fetched) <= repo.pageSize + 1
    /\ Len(c.out.ms) <= repo.pageSize
    /\ c.out.ms = Take(c.out.fetched, minPageSize(Len(c.out.fetched), repo.pageSize))
    /\ Len(c.out.fetched) <= repo.pageSize => c.out.next = NilPayload

Looked == got # None /\ got.out # None /\ got.intact

\* the values of the payload that was read
ReadValues == built[got.from].at

\* some entry of vs has the path key
HasPath(vs, key) == \E i \in 1..Len(vs) : vs[i].Path = key

\* the entry of vs that was inserted first among those with the path key
FirstOf(vs, key) ==
    vs[CHOOSE i \in 1..Len(vs) :
           /\ vs[i].Path = key
           /\ \A j \in 1..(i - 1) : vs[j].Path # key]

\* C21: a payload may hold several entries with the same path; every lookup
\* by path returns the value and order of the first entry, in insertion
\* order, whose path equals the key, while Values() and the serialized token
\* still contain all entries.
C21_FirstOccurrenceWins ==
    /\ (Looked /\ HasPath(ReadValues, got.key)) =>
          /\ got.out.order = FirstOf(ReadValues, got.key).Order
          /\ got.out.val =
                IF got.out.err = ""
                THEN Decode(got.type, FirstOf(ReadValues, got.key).Value).val
                ELSE ZeroOf(got.type)
          /\ got.out.err = "" <=>
                Decode(got.type, FirstOf(ReadValues, got.key).Value).st = "ok"
    /\ \A k \in 1..Len(built) :
          /\ Len(built[k].at) = built[k].adds
          /\ Values(built[k].vs).len = built[k].adds
          /\ \A i \in 1..built[k].adds :
                Elems(heap, Values(built[k].vs))[i] \in { built[k].at[i], Overwrite }
          /\ built[k].parse # None =>
                /\ built[k].parse.st = "ok"
                /\ built[k].parse.val.payload.vs = built[k].at

\* an int8 was added under a path that an earlier entry already has; the
\* accessor returned the earlier entry, and the token carried both
C21_Witness ==
    /\ Looked
    /\ got.type = "Int8"
    /\ got.at = 2
    /\ got.from = 1
    /\ Len(ReadValues) = 2
    /\ ReadValues[1].Path = ReadValues[2].Path
    /\ got.out = Got(SInt(FALSE, << 0, 0, 0, 7 >>), OrderAsc, "")
    /\ got.out.val # got.v
    /\ built[1].parse.val.payload.vs = ReadValues

(* ------------------------------- the reader ---------------------------- *)

\* an accessor was called on the payload
Called1 == lookup # None

\* the stored string the accessor call looks up
Stored == FirstOf(kf.vs, lookup.key)

\* C22: for every typed accessor and GetKeysetValue, a lookup of a path that
\* no entry has returns ErrFieldNotFound (and the decode function is not
\* called); a lookup of a present path whose stored string fails to decode
\* returns the decode function's error, not ErrFieldNotFound, together with
\* the zero value; otherwise the decoded value, the entry's order and no
\* error are returned.
C22_ReaderErrors ==
    Called1 =>
        IF ~HasPath(kf.vs, lookup.key)
        THEN /\ lookup.out.err = ErrFieldNotFound
             /\ lookup.decodes = 0
        ELSE IF Decode(lookup.type, Stored.Value).st # "ok"
        THEN /\ lookup.out.err = Decode(lookup.type, Stored.Value).err
             /\ lookup.out.err \notin { "", ErrFieldNotFound }
             /\ lookup.out.val = ZeroOf(lookup.type)
        ELSE lookup.out = Got(Decode(lookup.type, Stored.Value).val,
                              Stored.Order, "")

\* the Int8 accessor was called on a payload whose value under the path is
\* the text of 128, and returned the range error of strconv with the value 0
C22_Witness ==
    /\ Called1
    /\ lookup.type = "Int8"
    /\ HasPath(kf.vs, lookup.key)
    /\ Stored.Value = << 49, 50, 56 >>
    /\ lookup.out.err = "strconv.ParseInt: value out of range"
    /\ lookup.out.val = SInt(FALSE, Zero64)

\* a <= b on magnitudes of five limbs
Leq5(a, b) ==
    a = b \/ \E i \in 1..5 : a[i] < b[i] /\ \A j \in 1..(i - 1) : a[j] = b[j]

\* the largest magnitude of a negative number of the type
MinMagnitude(type) ==
    IF type = "Int8" THEN << 0, 0, 0, 0, 128 >>
    ELSE IF type = "Int16" THEN << 0, 0, 0, 0, 32768 >>
    ELSE IF type \in { "Int32", "Rune" } THEN << 0, 0, 0, 32768, 0 >>
    ELSE IF type \in { "Int64", "Int" } THEN << 0, 32768, 0, 0, 0 >>
    ELSE << 0, 0, 0, 0, 0 >>

\* the largest number of the type
MaxMagnitude(type) ==
    IF type = "Int8" THEN << 0, 0, 0, 0, 127 >>
    ELSE IF type = "Int16" THEN << 0, 0, 0, 0, 32767 >>
    ELSE IF type \in { "Int32", "Rune" } THEN << 0, 0, 0, 32767, 65535 >>
    ELSE IF type \in { "Int64", "Int" } THEN << 0, 32767, 65535, 65535, 65535 >>
    ELSE IF type \in { "Uint8", "Byte" } THEN << 0, 0, 0, 0, 255 >>
    ELSE IF type = "Uint16" THEN << 0, 0, 0, 0, 65535 >>
    ELSE IF type = "Uint32" THEN << 0, 0, 0, 65535, 65535 >>
    ELSE << 0, 65535, 65535, 65535, 65535 >>

\* the integer n is one of the type
InRange(n, type) ==
    IF n.neg THEN Leq5(n.mag, MinMagnitude(type))
    ELSE Leq5(n.mag, MaxMagnitude(type))

\* the integer n as a value of the type
AsValue(n, type) ==
    IF type \in SignedTypes THEN SInt(n.neg, Drop(n.mag, 1))
    ELSE Drop(n.mag, 1)

\* an accessor was called with the path whose value is the text of an integer
IntegerRead == Called1 /\ kf.from = "integer" /\ lookup.key = StrA

\* C23: for every integer accessor of width w (Int8..Int64, Uint8..Uint64,
\* Byte, Rune) and every stored decimal string, the accessor returns an error
\* whenever the number lies outside the range representable in w bits
\* (signed or unsigned respectively) and otherwise returns exactly that
\* number; it never returns a wrapped or truncated value, while the String
\* accessor returns the same stored string unchanged.
C23_IntegerRange ==
    IntegerRead =>
        /\ lookup.type \in SignedTypes \cup UnsignedTypes =>
              IF InRange(kf.n, lookup.type)
              THEN lookup.out = Got(AsValue(kf.n, lookup.type), kf.vs[1].Order, "")
              ELSE /\ lookup.out.err # ""
                   /\ lookup.out.val = ZeroOf(lookup.type)
        /\ lookup.type = "String" =>
              lookup.out = Got(Text(kf.n), kf.vs[1].Order, "")

\* the Int16 accessor was called on the text of -32769, one below the range,
\* and returned an error
C23_Witness ==
    /\ IntegerRead
    /\ lookup.type = "Int16"
    /\ kf.n = Num(TRUE, << 0, 0, 0, 0, 32769 >>)
    /\ kf.vs[1].Value = << 45, 51, 50, 55, 54, 57 >>
    /\ lookup.out.err = "strconv.ParseInt: value out of range"

\* the Order accessor, GetKeysetValue with ParseOrder, was called with a path
\* the payload has
OrderRead ==
    Called1 /\ lookup.type = "Order" /\ HasPath(kf.vs, lookup.key)

\* C24: OrderAsc.String() is "1" and OrderDesc.String() is "0";
\* ParseOrder(o.String()) returns o for both values; ParseOrder of any string
\* other than "0" and "1" returns an error.
C24_OrderText ==
    /\ kf.from = "order" =>
          kf.vs[1].Value = (IF kf.o = OrderAsc THEN << 49 >> ELSE << 48 >>)
    /\ (OrderRead /\ kf.from = "order") =>
          lookup.out = Got(kf.o, Stored.Order, "")
    /\ (OrderRead /\ Stored.Value \notin { << 48 >>, << 49 >> }) =>
          /\ lookup.out.err # ""
          /\ lookup.out.val = OrderDesc

\* OrderAsc was stored with AddKeysetValue and Order.String under a
\* descending entry and read back with ParseOrder
C24_Witness ==
    /\ OrderRead
    /\ kf.from = "order"
    /\ kf.o = OrderAsc
    /\ Stored.Order = OrderDesc
    /\ lookup.out = Got(OrderAsc, OrderDesc, "")

(* --------------------------- checksum builders ------------------------- *)

\* both builders have been built
BothBuilt == sums[1] # None /\ sums[2] # None

\* the number of times the pair p is among the (key, value) pairs of fs
PairCount(fs, p) ==
    Cardinality({ i \in 1..(Len(fs) \div 2) : << fs[2 * i - 1], fs[2 * i] >> = p })

\* fs and gs hold the same (key, value) pairs in a different order
Permuted(fs, gs) ==
    /\ fs # gs
    /\ Len(fs) = Len(gs)
    /\ \A i \in 1..(Len(fs) \div 2) :
          PairCount(fs, << fs[2 * i - 1], fs[2 * i] >>)
              = PairCount(gs, << fs[2 * i - 1], fs[2 * i] >>)

\* C25: for two checksum builders with the same mask that receive the same
\* (key, value) pairs in a different order (a permutation that changes the
\* sequence), Build returns different checksums.
C25_OrderSensitivity ==
    (/\ BothBuilt
     /\ builders[1].cb.mask = builders[2].cb.mask
     /\ Permuted(builders[1].cb.fields, builders[2].cb.fields)) =>
        sums[1].val # sums[2].val

\* the checksum of builder i with its mask applied again
Unmasked(i) == Xor32(sums[i].val, builders[i].cb.mask)

\* the CRC-32 (IEEE) of the serialized field list fs, for the lists whose
\* CRC-32 is known from a reference implementation
KnownCRC ==
    [fs \in { <<>>, << StrK, StrPlumless >>,
               << StrK, StrPlumless, StrK, StrBuckeroo >> } |->
        IF fs = <<>> THEN U32(28776, 53828)
        ELSE IF Len(fs) = 2 THEN U32(2078, 24400)
        ELSE U32(18933, 48456)]

\* C26: the checksum is CRC-32 of the serialized field list XOR the mask
\* (default 0x58AEF322, replaced by the Mask option), so for the same ordered
\* field list two builders with different masks always return different
\* checksums, and applying the same mask to the result again recovers the
\* unmasked CRC.
C26_MaskSensitivity ==
    /\ \A i \in 1..2 :
          /\ builders[i].cb.mask =
                IF builders[i].masked = <<>> THEN U32(22702, 62242)
                ELSE builders[i].masked[1]
          /\ sums[i] # None =>
                /\ sums[i].st = "ok"
                /\ builders[i].cb.fields \in DOMAIN KnownCRC =>
                      Unmasked(i) = KnownCRC[builders[i].cb.fields]
    /\ (BothBuilt /\ builders[1].cb.fields = builders[2].cb.fields) =>
          /\ Unmasked(1) = Unmasked(2)
          /\ builders[1].cb.mask # builders[2].cb.mask =>
                sums[1].val # sums[2].val

\* one builder kept the default mask, the other got Mask(0x12345678), both
\* got the same two fields, and their checksums differ
C26_Witness ==
    /\ BothBuilt
    /\ builders[1].masked = <<>>
    /\ builders[2].masked = << U32(4660, 22136) >>
    /\ Len(builders[1].cb.fields) = 4
    /\ builders[1].cb.fields = builders[2].cb.fields
    /\ sums[1].val # sums[2].val

(* ------------------------- key generation helpers ---------------------- *)

\* C27: each call to Rand16ByteKey, Rand24ByteKey or Rand32ByteKey returns a
\* freshly generated random key of the stated length; successive calls, in
\* the same process or in different processes, do not return the same key.
C27_FreshKeys ==
    /\ \A i \in 1..Len(keys) : Len(keys[i].key) = keys[i].size
    /\ \A i, j \in 1..Len(keys) : i < j => keys[i].key # keys[j].key

(* ------------------------ pagination completeness ---------------------- *)

\* the rows returned by the calls k.. of the session, page after page
RECURSIVE PagesFrom(_)
PagesFrom(k) ==
    IF k > Len(listed) THEN <<>> ELSE listed[k].out.ms \o PagesFrom(k + 1)

\* the ORDER BY of the session: that of the default order of the request
SessionOrder == DefaultOrder(NewQuery, repo.order).order

\* the last key of the payloads of the session
LastKey == SessionOrder[Len(SessionOrder)][1]

\* a session that started from an empty payload, over rows whose last payload
\* key is unique per row, and whose calls all returned without error
Paginating ==
    /\ listed # <<>>
    /\ IsEmptyKeyset(listed[1].keyset)
    /\ \A k \in 1..Len(listed) : listed[k].out.err = ""
    /\ \A a, b \in repo.table : a[LastKey] = b[LastKey] => a = b

C29_NextKeepsSource ==
    [][\A c \in 1..Len(toks) :
          /\ Len(toks') = Len(toks) + 1
          /\ toks'[c] = toks[c]
          /\ StringSlice(mem', toks'[c]) = StringSlice(mem, toks[c])
          /\ StringAt(mem', toks'[c]) = StringAt(mem, toks[c])]_vars

\* Next was called twice on the parsed token that holds fields, each time
\* with two fields: the new tokens hold two fields of their own and the
\* source serializes the entries and the checksum it was parsed with
C29_Witness ==
    /\ Len(run) = 2
    /\ run[1].src = run[2].src
    /\ Len(run[1].opts) = 2
    /\ Len(run[2].opts) = 2
    /\ toks[run[1].src].kind = "fields"
    /\ toks[run[1].new].fields.len = 2
    /\ toks[run[2].new].fields.len = 2
    /\ StringSlice(mem, toks[run[2].new]) # StringSlice(mem, toks[run[1].src])
    /\ StringSlice(mem, toks[run[1].src])
          = FlattenValues(Entries2) \o << FormatUint(ToUint64(U32(4660, 22136))) >>

(* ----------------------- the calls of the expander --------------------- *)

\* the fieldFn calls of the branches i.. of a payload: for each branch the
\* equalities on the entries before it, in order, then its comparison
RECURSIVE Schedule(_, _)
Schedule(fields, i) ==
    IF i > Len(fields) THEN <<>>
    ELSE [j \in 1..(i - 1) |->
             << fields[j].Path, fields[j].Value, KeysetValueOpEq >>]
         \o << << fields[i].Path, fields[i].Value,
                  IF fields[i].Order = OrderDesc THEN KeysetValueOpLt
                  ELSE KeysetValueOpGt >> >>
         \o Schedule(fields, i + 1)

\* what fieldFn returns for the k-th call of a schedule
Answer(fieldFn, sched, k) == Call(fieldFn, sched[k][1], sched[k][2], sched[k][3])

\* the first call of a schedule that fieldFn fails (0: none)
FirstError(fieldFn, sched) ==
    IF \A k \in 1..Len(sched) : Answer(fieldFn, sched, k).st = "ok" THEN 0
    ELSE CHOOSE k \in 1..Len(sched) :
            /\ Answer(fieldFn, sched, k).st # "ok"
            /\ \A m \in 1..(k - 1) : Answer(fieldFn, sched, m).st = "ok"

\* C30: KeysetValuesExpr invokes fieldFn branch by branch (for a branch first
\* the equalities on the entries before it, in order, then its comparison);
\* the first invocation that returns an error ends the call with that error,
\* a nil expression and no further invocation; when none fails, fieldFn is
\* called n(n+1)/2 times for a payload of n entries.
C30_ErrorPropagation ==
    (ex # None /\ ex.fn = "KeysetValuesExpr") =>
        IF FirstError(ex.by, Schedule(ex.fields, 1)) = 0
        THEN /\ ex.out.st = "ok"
             /\ ex.out.calls = Schedule(ex.fields, 1)
             /\ 2 * Len(ex.out.calls) = Len(ex.fields) * (Len(ex.fields) + 1)
        ELSE /\ ex.out.st = "err"
             /\ ex.out.err = Answer(ex.by, Schedule(ex.fields, 1),
                                    FirstError(ex.by, Schedule(ex.fields, 1))).err
             /\ ex.out.val = Nil
             /\ ex.out.calls = Take(Schedule(ex.fields, 1),
                                    FirstError(ex.by, Schedule(ex.fields, 1)))

\* a payload of three entries went to a callback that refuses equalities:
\* the comparison of the first branch succeeded, the equality that opens the
\* second branch failed, and the call returned its error after two calls
C30_Witness ==
    /\ ex # None
    /\ ex.fn = "KeysetValuesExpr"
    /\ ex.by = RangeFn
    /\ Len(ex.fields) = MaxKeys
    /\ ex.out.st = "err"
    /\ ex.out.err = "equality not supported"
    /\ ex.out.val = Nil
    /\ Len(ex.out.calls) = 2
    /\ ex.out.calls[2][3] = KeysetValueOpEq
====
